---- MODULE Spec2Model ----
(***************************************************************************)
(* Model of package interpolate of thediveo/tiap: the segment parser and   *)
(* evaluator of src/interpolate/parser.go and the tree walker of           *)
(* interpolate.go.                                                         *)
(*                                                                         *)
(* Go strings are modelled as sequences of one-character strings, so that  *)
(* the byte-wise scan of the parser and the formatting of error messages   *)
(* are computed, not assumed.  An index idx of the Go code is 0-based; the *)
(* byte s[idx] of the code is s[idx + 1] here.                             *)
(***************************************************************************)
EXTENDS Naturals, Sequences, FiniteSets, TLC

VARIABLES
    pc,         \* "input", "scanning", "parsed", "rendered", "lexed"; "tree",
                \* "called", "called again"
    vars,       \* the variable mapping handed to Text or to Variables
    input,      \* the string handed to parse, built piece by piece
    npieces,    \* number of pieces input was built from
    parsed,     \* result of parse(input)
    rendered,   \* result of parsed.segments.Text(vars)
    lexed,      \* result of parseName(input)
    data,       \* the document (a mapping) handed to the tree walker
    entry,      \* the function the document was handed to
    startPath,  \* the path it was called with
    outcome,    \* what that call returned
    second,     \* what a second call with the same arguments returned
    visited,    \* the path and the string of every call of interpolateString
                \* the call made, in order (not kept for stored values)
    mem,        \* the memory before and after a call on stored values
    stack,      \* the frames of parseRecursive while a parse is under way
    reads       \* the indices at which the last step read or sliced its string

cvars == <<stack, reads>>
svars == <<input, npieces, parsed, rendered, lexed, cvars>>
tvars == <<data, entry, startPath, outcome, second, visited, mem>>
allvars == <<pc, vars, svars, tvars>>

(***************************************************************************)
(* Characters.                                                             *)
(***************************************************************************)
LowerCase ==
    {"a", "b", "c", "d", "e", "f", "g", "h", "i", "j", "k", "l", "m",
     "n", "o", "p", "q", "r", "s", "t", "u", "v", "w", "x", "y", "z"}

UpperCase ==
    {"A", "B", "C", "D", "E", "F", "G", "H", "I", "J", "K", "L", "M",
     "N", "O", "P", "Q", "R", "S", "T", "U", "V", "W", "X", "Y", "Z"}

Digits == {"0", "1", "2", "3", "4", "5", "6", "7", "8", "9"}

\* s[idx] of the Go code
At(s, idx) == s[idx + 1]

\* s[idx:] of the Go code
From(s, idx) == SubSeq(s, idx + 1, Len(s))

(***************************************************************************)
(* Errors.  A Go error is nil or carries a message; errors.New("") is an   *)
(* error, so the message alone cannot stand for the error.                 *)
(***************************************************************************)
NilError == [failed |-> FALSE, msg |-> <<>>]

NewError(m) == [failed |-> TRUE, msg |-> m]

errStandAlone ==
    <<"i", "n", "v", "a", "l", "i", "d", " ", "s", "t", "a", "n", "d", "-",
      "a", "l", "o", "n", "e", " ", "$" >>

errMissingName ==
    <<"m", "i", "s", "s", "i", "n", "g", " ", "v", "a", "r", "i", "a", "b",
      "l", "e", " ", "n", "a", "m", "e", " ", "a", "f", "t", "e", "r", " ",
      "$", "{" >>

errUnterminated ==
    <<"u", "n", "t", "e", "r", "m", "i", "n", "a", "t", "e", "d", " ", "$",
      "{" >>

errIncompleteOp ==
    <<"i", "n", "c", "o", "m", "p", "l", "e", "t", "e", " ", "v", "a", "r",
      "i", "a", "b", "l", "e", " ", "s", "u", "b", "s", "t", "i", "t", "u",
      "t", "i", "o", "n", " ", "o", "p", "e", "r", "a", "t", "i", "o", "n" >>

errInvalidOp ==
    <<"i", "n", "v", "a", "l", "i", "d", " ", "v", "a", "r", "i", "a", "b",
      "l", "e", " ", "s", "u", "b", "s", "t", "i", "t", "u", "t", "i", "o",
      "n", " ", "o", "p", "e", "r", "a", "t", "i", "o", "n" >>

errUnclosed ==
    <<"u", "n", "c", "l", "o", "s", "e", "d", " ", "b", "r", "a", "c", "e",
      "d", " ", "v", "a", "r", "i", "a", "b", "l", "e", " ", "s", "u", "b",
      "s", "t", "i", "t", "u", "t", "i", "o", "n" >>

errInternal ==
    <<"i", "n", "t", "e", "r", "n", "a", "l", " ", "e", "r", "r", "o", "r",
      ":", " ", "u", "n", "k", "n", "o", "w", "n", " ", "i", "n", "t", "e",
      "r", "p", "o", "l", "a", "t", "i", "o", "n", " ", "o", "p", "e", "r",
      "a", "t", "i", "o", "n", " ", "'" >>

(***************************************************************************)
(* Segments.                                                               *)
(***************************************************************************)
PlainText(t) == [type |-> "PlainText", text |-> t]

\* Substitution{VariableName: name, Operation: op, AltValue: alt}
Substitution(name, op, alt) ==
    [type |-> "Substitution", VariableName |-> name, Operation |-> op,
     AltValue |-> alt]

\* vars[name] in its two-result form: the zero value and ok = false when the
\* key is absent (also for the nil map, which reads as the empty map)
Lookup(v, name) ==
    IF name \in DOMAIN v
    THEN [value |-> v[name], ok |-> TRUE]
    ELSE [value |-> <<>>, ok |-> FALSE]

RECURSIVE SegmentsText(_, _)
RECURSIVE SegmentText(_, _)
RECURSIVE parse(_)

\* errorWhenUnset raising the user's error whatever became of rendering
\* the alternative value
errorWhenUnsetIgnoringAltError(subst, v) ==
    LET l == Lookup(v, subst.VariableName)
    IN  IF ~l.ok
        THEN [text |-> <<>>,
              err |-> NewError(SegmentsText(subst.AltValue, v).text)]
        ELSE [text |-> l.value, err |-> NilError]

errorWhenUnset(subst, v) ==
    LET l == Lookup(v, subst.VariableName)
    IN  IF ~l.ok
        THEN LET alt == SegmentsText(subst.AltValue, v)
             IN  IF alt.err.failed
                 THEN [text |-> <<>>, err |-> alt.err]
                 ELSE [text |-> <<>>, err |-> NewError(alt.text)]
        ELSE [text |-> l.value, err |-> NilError]

\* errorWhenUnsetOrEmpty letting an empty value pass
errorWhenUnsetOrEmptyPassesEmpty(subst, v) ==
    LET l == Lookup(v, subst.VariableName)
    IN  IF ~l.ok
        THEN LET alt == SegmentsText(subst.AltValue, v)
             IN  IF alt.err.failed
                 THEN [text |-> <<>>, err |-> alt.err]
                 ELSE [text |-> <<>>, err |-> NewError(alt.text)]
        ELSE [text |-> l.value, err |-> NilError]

errorWhenUnsetOrEmpty(subst, v) ==
    LET l == Lookup(v, subst.VariableName)
    IN  IF ~l.ok \/ l.value = <<>>
        THEN LET alt == SegmentsText(subst.AltValue, v)
             IN  IF alt.err.failed
                 THEN [text |-> <<>>, err |-> alt.err]
                 ELSE [text |-> <<>>, err |-> NewError(alt.text)]
        ELSE [text |-> l.value, err |-> NilError]

\* defaultWhenUnset taking an empty value for an unset one
defaultWhenUnsetTreatsEmptyAsUnset(subst, v) ==
    LET l == Lookup(v, subst.VariableName)
    IN  IF ~l.ok \/ l.value = <<>>
        THEN LET alt == SegmentsText(subst.AltValue, v)
             IN  IF alt.err.failed
                 THEN [text |-> <<>>, err |-> alt.err]
                 ELSE [text |-> alt.text, err |-> NilError]
        ELSE [text |-> l.value, err |-> NilError]

defaultWhenUnset(subst, v) ==
    LET l == Lookup(v, subst.VariableName)
    IN  IF ~l.ok
        THEN LET alt == SegmentsText(subst.AltValue, v)
             IN  IF alt.err.failed
                 THEN [text |-> <<>>, err |-> alt.err]
                 ELSE [text |-> alt.text, err |-> NilError]
        ELSE [text |-> l.value, err |-> NilError]

defaultWhenUnsetOrEmpty(subst, v) ==
    LET l == Lookup(v, subst.VariableName)
    IN  IF ~l.ok \/ l.value = <<>>
        THEN LET alt == SegmentsText(subst.AltValue, v)
             IN  IF alt.err.failed
                 THEN [text |-> <<>>, err |-> alt.err]
                 ELSE [text |-> alt.text, err |-> NilError]
        ELSE [text |-> l.value, err |-> NilError]

\* replaceWhenSet taking an empty value for an unset one
replaceWhenSetSkipsEmpty(subst, v) ==
    LET l == Lookup(v, subst.VariableName)
    IN  IF ~l.ok \/ l.value = <<>>
        THEN [text |-> <<>>, err |-> NilError]
        ELSE SegmentsText(subst.AltValue, v)

replaceWhenSet(subst, v) ==
    LET l == Lookup(v, subst.VariableName)
    IN  IF ~l.ok
        THEN [text |-> <<>>, err |-> NilError]
        ELSE SegmentsText(subst.AltValue, v)

\* replaceWhenSetAndNotEmpty rendering the alternative value before it
\* looks at the variable
replaceWhenSetAndNotEmptyEager(subst, v) ==
    IF SegmentsText(subst.AltValue, v).err.failed
    THEN SegmentsText(subst.AltValue, v)
    ELSE IF ~Lookup(v, subst.VariableName).ok
            \/ Lookup(v, subst.VariableName).value = <<>>
    THEN [text |-> <<>>, err |-> NilError]
    ELSE SegmentsText(subst.AltValue, v)

replaceWhenSetAndNotEmpty(subst, v) ==
    LET l == Lookup(v, subst.VariableName)
    IN  IF ~l.ok \/ l.value = <<>>
        THEN [text |-> <<>>, err |-> NilError]
        ELSE SegmentsText(subst.AltValue, v)

\* Substitution.Text failing on a bare reference to an unset variable
SubstitutionTextStrict(subst, v) ==
    CASE subst.Operation = <<>> ->
            IF Lookup(v, subst.VariableName).ok
            THEN [text |-> Lookup(v, subst.VariableName).value,
                  err |-> NilError]
            ELSE [text |-> <<>>, err |-> NewError(subst.VariableName)]
      [] subst.Operation = <<"?">> -> errorWhenUnset(subst, v)
      [] subst.Operation = <<":", "?">> -> errorWhenUnsetOrEmpty(subst, v)
      [] subst.Operation = <<"-">> -> defaultWhenUnset(subst, v)
      [] subst.Operation = <<":", "-">> -> defaultWhenUnsetOrEmpty(subst, v)
      [] subst.Operation = <<"+">> -> replaceWhenSet(subst, v)
      [] subst.Operation = <<":", "+">> -> replaceWhenSetAndNotEmpty(subst, v)
      [] OTHER ->
            [text |-> <<>>,
             err |-> NewError(errInternal \o subst.Operation \o <<"'">>)]

\* Substitution.Text interpolating the value of a bare reference in its
\* turn
SubstitutionTextRescanning(subst, v) ==
    CASE subst.Operation = <<>> ->
            IF parse(Lookup(v, subst.VariableName).value).err.failed
            THEN [text |-> <<>>,
                  err |-> parse(Lookup(v, subst.VariableName).value).err]
            ELSE SegmentsText(
                    parse(Lookup(v, subst.VariableName).value).segments, v)
      [] subst.Operation = <<"?">> -> errorWhenUnset(subst, v)
      [] subst.Operation = <<":", "?">> -> errorWhenUnsetOrEmpty(subst, v)
      [] subst.Operation = <<"-">> -> defaultWhenUnset(subst, v)
      [] subst.Operation = <<":", "-">> -> defaultWhenUnsetOrEmpty(subst, v)
      [] subst.Operation = <<"+">> -> replaceWhenSet(subst, v)
      [] subst.Operation = <<":", "+">> -> replaceWhenSetAndNotEmpty(subst, v)
      [] OTHER ->
            [text |-> <<>>,
             err |-> NewError(errInternal \o subst.Operation \o <<"'">>)]

\* Substitution.Text
SubstitutionText(subst, v) ==
    CASE subst.Operation = <<>> ->
            [text |-> Lookup(v, subst.VariableName).value, err |-> NilError]
      [] subst.Operation = <<"?">> -> errorWhenUnset(subst, v)
      [] subst.Operation = <<":", "?">> -> errorWhenUnsetOrEmpty(subst, v)
      [] subst.Operation = <<"-">> -> defaultWhenUnset(subst, v)
      [] subst.Operation = <<":", "-">> -> defaultWhenUnsetOrEmpty(subst, v)
      [] subst.Operation = <<"+">> -> replaceWhenSet(subst, v)
      [] subst.Operation = <<":", "+">> -> replaceWhenSetAndNotEmpty(subst, v)
      [] OTHER ->
            [text |-> <<>>,
             err |-> NewError(errInternal \o subst.Operation \o <<"'">>)]

\* PlainText.Text
PlainTextText(pt, v) == [text |-> pt.text, err |-> NilError]

\* the dynamic dispatch of seg.Text(vars) on the segment's type
SegmentText(seg, v) ==
    IF seg.type = "PlainText"
    THEN PlainTextText(seg, v)
    ELSE SubstitutionText(seg, v)

RECURSIVE SegmentsTextLoop(_, _, _, _)

\* the loop of Segments.Text going on after a failing segment and returning
\* the error of the last segment that fails
SegmentsTextLoopLastError(segs, v, i, text) ==
    IF i > Len(segs)
    THEN [text |-> text, err |-> NilError]
    ELSE IF SegmentText(segs[i], v).err.failed
    THEN IF SegmentsTextLoop(segs, v, i + 1, text).err.failed
         THEN SegmentsTextLoop(segs, v, i + 1, text)
         ELSE [text |-> <<>>, err |-> SegmentText(segs[i], v).err]
    ELSE SegmentsTextLoop(segs, v, i + 1,
                          text \o SegmentText(segs[i], v).text)

\* the loop of Segments.Text from segment i on, text being the builder
SegmentsTextLoop(segs, v, i, text) ==
    IF i > Len(segs)
    THEN [text |-> text, err |-> NilError]
    ELSE LET r == SegmentText(segs[i], v)
         IN  IF r.err.failed
             THEN [text |-> <<>>, err |-> r.err]
             ELSE SegmentsTextLoop(segs, v, i + 1, text \o r.text)

\* Segments.Text
SegmentsText(segs, v) == SegmentsTextLoop(segs, v, 1, <<>>)

(***************************************************************************)
(* The parser.                                                             *)
(***************************************************************************)
IsNameStart(ch) == ch \in LowerCase \/ ch \in UpperCase \/ ch = "_"

RECURSIVE parseNameLoop(_, _)

\* the loop of parseName taking a digit for the first byte of a name, too
parseNameLoopDigitFirst(s, idx) ==
    IF idx >= Len(s)
    THEN s
    ELSE IF \/ At(s, idx) = "_"
            \/ At(s, idx) \in LowerCase
            \/ At(s, idx) \in UpperCase
            \/ At(s, idx) \in Digits
         THEN parseNameLoop(s, idx + 1)
         ELSE SubSeq(s, 1, idx)

parseNameLoop(s, idx) ==
    IF idx >= Len(s)
    THEN s
    ELSE LET ch == At(s, idx)
         IN  IF \/ ch = "_"
                \/ ch \in LowerCase
                \/ ch \in UpperCase
                \/ (idx > 0 /\ ch \in Digits)
             THEN parseNameLoop(s, idx + 1)
             ELSE SubSeq(s, 1, idx)

parseName(s) == parseNameLoop(s, 0)

\* the pending text emitted as a segment whether it is empty or not
FlushAlways(segments, text) == Append(segments, PlainText(text))

\* text.Len() > 0: emit the pending text as a segment (and reset the builder)
Flush(segments, text) ==
    IF Len(text) # 0 THEN Append(segments, PlainText(text)) ELSE segments

RECURSIVE parseRecursiveLoop(_, _, _, _, _)
RECURSIVE parseVariable(_, _, _, _)
RECURSIVE parseBraced(_, _, _, _)

\* parseRecursive ending at a closing brace outside of braced mode, too
parseRecursiveAnyBrace(s, braced) ==
    parseRecursiveLoop(s, TRUE, 0, <<>>, <<>>)

\* parseRecursive returns (Segments, int, error); nilSegments tells the nil
\* slice of the error returns from the empty, non-nil Segments{}
parseRecursive(s, braced) == parseRecursiveLoop(s, braced, 0, <<>>, <<>>)

\* the loop of parseRecursive taking the end of the string for a closing
\* brace
parseRecursiveLoopLenient(s, braced, idx, text, segments) ==
    IF idx >= Len(s)
    THEN [segments |-> Flush(segments, text), nilSegments |-> FALSE,
          idx |-> IF braced THEN idx ELSE 0, err |-> NilError]
    ELSE LET ch == At(s, idx)
         IN  IF ch = "$"
             THEN LET r == parseVariable(s, idx, text, segments)
                  IN  IF r.err.failed
                      THEN [segments |-> <<>>, nilSegments |-> TRUE,
                            idx |-> 0, err |-> r.err]
                      ELSE parseRecursiveLoop(s, braced, r.idx + 1, r.text,
                                              r.segments)
             ELSE IF ch = "}" /\ braced
             THEN [segments |-> Flush(segments, text),
                   nilSegments |-> FALSE, idx |-> idx, err |-> NilError]
             ELSE parseRecursiveLoop(s, braced, idx + 1, Append(text, ch),
                                     segments)

\* the loop of parseRecursive returning, with an error, the segments it
\* has collected
parseRecursiveLoopKeeping(s, braced, idx, text, segments) ==
    IF idx >= Len(s)
    THEN IF braced
         THEN [segments |-> segments, nilSegments |-> FALSE, idx |-> 0,
               err |-> NewError(errUnclosed)]
         ELSE [segments |-> Flush(segments, text), nilSegments |-> FALSE,
               idx |-> 0, err |-> NilError]
    ELSE LET ch == At(s, idx)
         IN  IF ch = "$"
             THEN LET r == parseVariable(s, idx, text, segments)
                  IN  IF r.err.failed
                      THEN [segments |-> segments, nilSegments |-> FALSE,
                            idx |-> 0, err |-> r.err]
                      ELSE parseRecursiveLoop(s, braced, r.idx + 1, r.text,
                                              r.segments)
             ELSE IF ch = "}" /\ braced
             THEN [segments |-> Flush(segments, text),
                   nilSegments |-> FALSE, idx |-> idx, err |-> NilError]
             ELSE parseRecursiveLoop(s, braced, idx + 1, Append(text, ch),
                                     segments)

parseRecursiveLoop(s, braced, idx, text, segments) ==
    IF idx >= Len(s)
    THEN IF braced
         THEN [segments |-> <<>>, nilSegments |-> TRUE, idx |-> 0,
               err |-> NewError(errUnclosed)]
         ELSE [segments |-> Flush(segments, text), nilSegments |-> FALSE,
               idx |-> 0, err |-> NilError]
    ELSE LET ch == At(s, idx)
         IN  IF ch = "$"
             THEN LET r == parseVariable(s, idx, text, segments)
                  IN  IF r.err.failed
                      THEN [segments |-> <<>>, nilSegments |-> TRUE,
                            idx |-> 0, err |-> r.err]
                      ELSE parseRecursiveLoop(s, braced, r.idx + 1, r.text,
                                              r.segments)
             ELSE IF ch = "}" /\ braced
             THEN [segments |-> Flush(segments, text),
                   nilSegments |-> FALSE, idx |-> idx, err |-> NilError]
             ELSE parseRecursiveLoop(s, braced, idx + 1, Append(text, ch),
                                     segments)

parseVariableName(s, idx, text, segments) ==
    LET name == parseName(From(s, idx))
    IN  [idx |-> idx + Len(name) - 1,
         segments |-> Append(Flush(segments, text),
                             Substitution(name, <<>>, <<>>)),
         text |-> <<>>,
         err |-> NilError]

\* parseVariable without the $$ escape
parseVariableNoEscape(s, idx0, text, segments) ==
    LET idx == idx0 + 1
    IN  IF idx >= Len(s)
        THEN [idx |-> 0, segments |-> <<>>, text |-> text,
              err |-> NewError(errStandAlone)]
        ELSE LET ch == At(s, idx)
             IN  IF ch = "{"
                 THEN LET r == parseBraced(s, idx, text, segments)
                      IN  IF r.err.failed
                          THEN [idx |-> 0, segments |-> <<>>, text |-> text,
                                err |-> r.err]
                          ELSE r
                 ELSE IF IsNameStart(ch)
                 THEN parseVariableName(s, idx, text, segments)
                 ELSE [idx |-> idx, segments |-> segments, text |-> text,
                       err |-> NilError]

parseVariable(s, idx0, text, segments) ==
    LET idx == idx0 + 1
    IN  IF idx >= Len(s)
        THEN [idx |-> 0, segments |-> <<>>, text |-> text,
              err |-> NewError(errStandAlone)]
        ELSE LET ch == At(s, idx)
             IN  IF ch = "$"
                 THEN [idx |-> idx, segments |-> segments,
                       text |-> Append(text, "$"), err |-> NilError]
                 ELSE IF ch = "{"
                 THEN LET r == parseBraced(s, idx, text, segments)
                      IN  IF r.err.failed
                          THEN [idx |-> 0, segments |-> <<>>, text |-> text,
                                err |-> r.err]
                          ELSE r
                 ELSE IF IsNameStart(ch)
                 THEN parseVariableName(s, idx, text, segments)
                 ELSE [idx |-> idx, segments |-> segments, text |-> text,
                       err |-> NilError]

\* the error returns of parseBraced
BracedError(text, m) ==
    [idx |-> 0, segments |-> <<>>, text |-> text, err |-> NewError(m)]

\* the length of the longest prefix of s without a closing brace
RECURSIVE UpToBrace(_, _)
UpToBrace(s, idx) ==
    IF idx >= Len(s) \/ At(s, idx) = "}" THEN idx ELSE UpToBrace(s, idx + 1)

\* parseAltValue taking the text up to the first closing brace for the
\* alternative value, without parsing it
parseAltValueFlat(s, idx0, op, name, text, segments) ==
    LET idx == idx0 + 1
        n == UpToBrace(From(s, idx), 0)
    IN  IF idx + n >= Len(s)
        THEN [idx |-> 0, segments |-> <<>>, text |-> text,
              err |-> NewError(errUnclosed)]
        ELSE [idx |-> idx + n,
              segments |-> Append(Flush(segments, text),
                                  Substitution(name, op,
                                      Flush(<<>>, SubSeq(s, idx + 1, idx + n)))),
              text |-> <<>>,
              err |-> NilError]

\* parseAltValue refusing an alternative value without segments
parseAltValueNotEmpty(s, idx0, op, name, text, segments) ==
    LET idx == idx0 + 1
        r == parseRecursive(From(s, idx), TRUE)
    IN  IF r.err.failed
        THEN [idx |-> 0, segments |-> <<>>, text |-> text, err |-> r.err]
        ELSE IF r.segments = <<>>
        THEN [idx |-> 0, segments |-> <<>>, text |-> text,
              err |-> NewError(errInvalidOp)]
        ELSE [idx |-> idx + r.idx,
              segments |-> Append(Flush(segments, text),
                                  Substitution(name, op, r.segments)),
              text |-> <<>>,
              err |-> NilError]

\* parseBraced from the operator on: idx is at the operator's last character
parseAltValue(s, idx0, op, name, text, segments) ==
    LET idx == idx0 + 1
        r == parseRecursive(From(s, idx), TRUE)
    IN  IF r.err.failed
        THEN [idx |-> 0, segments |-> <<>>, text |-> text, err |-> r.err]
        ELSE [idx |-> idx + r.idx,
              segments |-> Append(Flush(segments, text),
                                  Substitution(name, op, r.segments)),
              text |-> <<>>,
              err |-> NilError]

\* parseBraced with one message for every malformed operator
parseBracedOneMessage(s, idx0, text, segments) ==
    LET name == parseName(From(s, idx0 + 1))
        idx == idx0 + 1 + Len(name)
    IN  IF name = <<>>
        THEN BracedError(text, errMissingName)
        ELSE IF idx >= Len(s)
        THEN BracedError(text, errUnterminated)
        ELSE LET ch == At(s, idx)
             IN  IF ch = "}"
                 THEN [idx |-> idx,
                       segments |-> Append(Flush(segments, text),
                                           Substitution(name, <<>>, <<>>)),
                       text |-> <<>>,
                       err |-> NilError]
                 ELSE IF ch \in {"?", "-", "+"}
                 THEN parseAltValue(s, idx, <<ch>>, name, text, segments)
                 ELSE IF ch = ":"
                 THEN IF idx + 1 >= Len(s)
                      THEN BracedError(text, errInvalidOp)
                      ELSE LET ch2 == At(s, idx + 1)
                           IN  IF ch2 \in {"?", "-", "+"}
                               THEN parseAltValue(s, idx + 1, <<":", ch2>>,
                                                  name, text, segments)
                               ELSE BracedError(text, errInvalidOp)
                 ELSE BracedError(text, errInvalidOp)

\* parseBraced taking any byte after the name for an operator
parseBracedAnyOperator(s, idx0, text, segments) ==
    LET name == parseName(From(s, idx0 + 1))
        idx == idx0 + 1 + Len(name)
    IN  IF name = <<>>
        THEN BracedError(text, errMissingName)
        ELSE IF idx >= Len(s)
        THEN BracedError(text, errUnterminated)
        ELSE LET ch == At(s, idx)
             IN  IF ch = "}"
                 THEN [idx |-> idx,
                       segments |-> Append(Flush(segments, text),
                                           Substitution(name, <<>>, <<>>)),
                       text |-> <<>>,
                       err |-> NilError]
                 ELSE IF ch \in {"?", "-", "+"}
                 THEN parseAltValue(s, idx, <<ch>>, name, text, segments)
                 ELSE IF ch = ":"
                 THEN IF idx + 1 >= Len(s)
                      THEN BracedError(text, errIncompleteOp)
                      ELSE LET ch2 == At(s, idx + 1)
                           IN  IF ch2 \in {"?", "-", "+"}
                               THEN parseAltValue(s, idx + 1, <<":", ch2>>,
                                                  name, text, segments)
                               ELSE BracedError(text, errInvalidOp)
                 ELSE parseAltValue(s, idx, <<ch>>, name, text, segments)

parseBraced(s, idx0, text, segments) ==
    LET name == parseName(From(s, idx0 + 1))
        idx == idx0 + 1 + Len(name)
    IN  IF name = <<>>
        THEN BracedError(text, errMissingName)
        ELSE IF idx >= Len(s)
        THEN BracedError(text, errUnterminated)
        ELSE LET ch == At(s, idx)
             IN  IF ch = "}"
                 THEN [idx |-> idx,
                       segments |-> Append(Flush(segments, text),
                                           Substitution(name, <<>>, <<>>)),
                       text |-> <<>>,
                       err |-> NilError]
                 ELSE IF ch \in {"?", "-", "+"}
                 THEN parseAltValue(s, idx, <<ch>>, name, text, segments)
                 ELSE IF ch = ":"
                 THEN IF idx + 1 >= Len(s)
                      THEN BracedError(text, errIncompleteOp)
                      ELSE LET ch2 == At(s, idx + 1)
                           IN  IF ch2 \in {"?", "-", "+"}
                               THEN parseAltValue(s, idx + 1, <<":", ch2>>,
                                                  name, text, segments)
                               ELSE BracedError(text, errInvalidOp)
                 ELSE BracedError(text, errInvalidOp)

\* parse drops the index of parseRecursive
parse(s) ==
    LET r == parseRecursive(s, FALSE)
    IN  [segments |-> r.segments, nilSegments |-> r.nilSegments,
         err |-> r.err]

(***************************************************************************)
(* The parser, step by step.  A frame is one call of parseRecursive under  *)
(* way: its arguments s and braced, its loop index idx, its text builder   *)
(* and its segments; base is the offset of s in the string handed to       *)
(* parse.  A frame that waits for the parseRecursive call of parseBraced   *)
(* keeps parseBraced's name and op, and in at the index the alternative    *)
(* value starts at.  A step is one iteration of the loop of parseRecursive *)
(* with the calls of parseVariable, parseVariableName, parseBraced and     *)
(* parseName it makes, up to the next iteration, to the call of            *)
(* parseRecursive or to the return.                                        *)
(***************************************************************************)
Frame(s, braced, base) ==
    [s |-> s, braced |-> braced, idx |-> 0, text |-> <<>>,
     segments |-> <<>>, base |-> base, name |-> <<>>, op |-> <<>>, at |-> 0]

\* what a step did with its string: the indices i of the bytes s[i] it
\* read and the indices i of the slices s[i:] it took
Reads(s, bytes, slices) ==
    [len |-> Len(s), bytes |-> bytes, slices |-> slices]

NoReads == [len |-> 0, bytes |-> {}, slices |-> {}]

\* the next iteration of the loop, at idx
Continue(f, idx, text, segments, bytes, slices) ==
    [kind |-> "continue",
     frame |-> [f EXCEPT !.idx = idx, !.text = text, !.segments = segments],
     reads |-> Reads(f.s, bytes, slices)]

\* return nil, 0, err
Fail(f, m, bytes, slices) ==
    [kind |-> "fail", err |-> NewError(m), reads |-> Reads(f.s, bytes, slices)]

\* parseRecursive(s[at:], true) called from parseBraced
Call(f, name, op, at, bytes, slices) ==
    [kind |-> "call",
     frame |-> [f EXCEPT !.name = name, !.op = op, !.at = at],
     reads |-> Reads(f.s, bytes, slices \cup {at})]

\* return segments, idx, nil
Return(f, segments, idx, bytes) ==
    [kind |-> "return", segments |-> segments, idx |-> idx,
     reads |-> Reads(f.s, bytes, {})]

\* the indices of sub the loop of parseName reads when it returns name
parseNameReads(sub, name) == { j \in 0..Len(name) : j < Len(sub) }

\* parseBraced called with idx0, the index of the opening brace
stepBraced(f, idx0, bytes0) ==
    LET s == f.s
        sub == From(s, idx0 + 1)
        name == parseName(sub)
        idx == idx0 + 1 + Len(name)
        bytes == bytes0 \cup { idx0 + 1 + j : j \in parseNameReads(sub, name) }
        slices == {idx0 + 1}
    IN  IF name = <<>>
        THEN Fail(f, errMissingName, bytes, slices)
        ELSE IF idx >= Len(s)
        THEN Fail(f, errUnterminated, bytes, slices)
        ELSE IF At(s, idx) = "}"
        THEN Continue(f, idx + 1, <<>>,
                      Append(Flush(f.segments, f.text),
                             Substitution(name, <<>>, <<>>)),
                      bytes \cup {idx}, slices)
        ELSE IF At(s, idx) \in {"?", "-", "+"}
        THEN Call(f, name, <<At(s, idx)>>, idx + 1, bytes \cup {idx}, slices)
        ELSE IF At(s, idx) = ":"
        THEN IF idx + 1 >= Len(s)
             THEN Fail(f, errIncompleteOp, bytes \cup {idx}, slices)
             ELSE IF At(s, idx + 1) \in {"?", "-", "+"}
             THEN Call(f, name, <<":", At(s, idx + 1)>>, idx + 2,
                       bytes \cup {idx, idx + 1}, slices)
             ELSE Fail(f, errInvalidOp, bytes \cup {idx, idx + 1}, slices)
        ELSE Fail(f, errInvalidOp, bytes \cup {idx}, slices)

\* parseVariableName called with idx, the index of the name's first byte
stepVariableName(f, idx, bytes0) ==
    LET sub == From(f.s, idx)
        name == parseName(sub)
    IN  Continue(f, idx + Len(name) - 1 + 1, <<>>,
                 Append(Flush(f.segments, f.text),
                        Substitution(name, <<>>, <<>>)),
                 bytes0 \cup { idx + j : j \in parseNameReads(sub, name) },
                 {idx})

\* parseVariable called with idx0, the index of the $
stepVariable(f, idx0) ==
    LET s == f.s
        idx == idx0 + 1
    IN  IF idx >= Len(s)
        THEN Fail(f, errStandAlone, {idx0}, {})
        ELSE IF At(s, idx) = "$"
        THEN Continue(f, idx + 1, Append(f.text, "$"), f.segments,
                      {idx0, idx}, {})
        ELSE IF At(s, idx) = "{"
        THEN stepBraced(f, idx, {idx0, idx})
        ELSE IF IsNameStart(At(s, idx))
        THEN stepVariableName(f, idx, {idx0, idx})
        ELSE Continue(f, idx + 1, f.text, f.segments, {idx0, idx}, {})

\* one iteration of the loop of parseRecursive, or the code after the loop
step(f) ==
    IF f.idx >= Len(f.s)
    THEN IF f.braced
         THEN Fail(f, errUnclosed, {}, {})
         ELSE Return(f, Flush(f.segments, f.text), 0, {})
    ELSE IF At(f.s, f.idx) = "$"
    THEN stepVariable(f, f.idx)
    ELSE IF At(f.s, f.idx) = "}" /\ f.braced
    THEN Return(f, Flush(f.segments, f.text), f.idx, {f.idx})
    ELSE Continue(f, f.idx + 1, Append(f.text, At(f.s, f.idx)), f.segments,
                  {f.idx}, {})

\* parseBraced going on after its parseRecursive call returned without the
\* alternative value's length
resumeWithoutConsumed(f, segs, consumed) ==
    [f EXCEPT !.idx = f.at + 1,
              !.text = <<>>,
              !.segments = Append(Flush(f.segments, f.text),
                                  Substitution(f.name, f.op, segs))]

\* parseBraced going on after its parseRecursive call returned segs and
\* consumed, up to the next iteration of the caller's loop
resume(f, segs, consumed) ==
    [f EXCEPT !.idx = f.at + consumed + 1,
              !.text = <<>>,
              !.segments = Append(Flush(f.segments, f.text),
                                  Substitution(f.name, f.op, segs))]

(***************************************************************************)
(* The tree walker (interpolate.go).  A value of type any is a record      *)
(* tagged with its dynamic type.  Go ranges over a map in an unspecified   *)
(* order, so a walk of a mapping has a set of possible outcomes: one per   *)
(* order in which the loop may visit the keys.                             *)
(***************************************************************************)
String(s) == [kind |-> "string", str |-> s]
Mapping(m) == [kind |-> "map", entries |-> m]
Sequence(q) == [kind |-> "seq", elems |-> q]
Int(n) == [kind |-> "int", num |-> n]
NilMapping == [kind |-> "nil map"]
NilSequence == [kind |-> "nil seq"]

\* what a caller gets of an outcome o of the walker
Returned(o) == [value |-> o.value, err |-> o.err]

\* the empty map[string]any{}
EmptyMap == [k \in {} |-> String(<<>>)]

errInPrefix == <<"e", "r", "r", "o", "r", " ", "i", "n", " ", "'" >>
errInSep == <<"'", ":", " " >>

\* fmt.Errorf("error in '%s': %w", string(path), err)
Errorf(path, err) == NewError(errInPrefix \o path \o errInSep \o err.msg)

DigitChars == <<"0", "1", "2", "3", "4", "5", "6", "7", "8", "9">>

\* strconv.FormatInt(int64(idx), 10) for idx >= 0
RECURSIVE FormatInt(_)
FormatInt(n) ==
    IF n < 10
    THEN <<DigitChars[n + 1]>>
    ELSE FormatInt(n \div 10) \o <<DigitChars[(n % 10) + 1]>>

\* Path.Append
PathAppend(p, name) ==
    IF p = <<>> THEN name ELSE p \o <<".">> \o name

\* Path.AppendIndex
PathAppendIndex(p, idx) ==
    IF p = <<>>
    THEN <<"[">> \o FormatInt(idx) \o <<"]">>
    ELSE p \o <<"[">> \o FormatInt(idx) \o <<"]">>

\* the statements of interpolateString after segments, err := parse(value)
interpolateStringParsed(p, path, v) ==
    IF p.err.failed
    THEN [text |-> <<>>, err |-> Errorf(path, p.err)]
    ELSE SegmentsText(p.segments, v)

interpolateString(value, path, v) ==
    interpolateStringParsed(parse(value), path, v)

\* the (string, error) of interpolateString returned as (any, error); calls
\* lists, in order, the calls of interpolateString made on the way: the
\* path and the string of each
StringOutcome(r, path, value) ==
    [value |-> String(r.text), err |-> r.err,
     calls |-> <<[path |-> path, str |-> value]>>]

\* the outcome r of the rest of a loop, after the calls made before it
After(calls, r) == [r EXCEPT !.calls = calls \o @]

RECURSIVE recursively(_, _, _)

RECURSIVE interpolateMappingLoop(_, _, _, _, _)

\* the range loop of interpolateMapping returning, with the error, the
\* mapping built so far
interpolateMappingLoopPartial(values, path, v, todo, result) ==
    IF todo = {}
    THEN {[value |-> Mapping(result), err |-> NilError, calls |-> <<>>]}
    ELSE UNION { UNION {
            IF o.err.failed
            THEN {[value |-> Mapping(result), err |-> o.err,
                   calls |-> o.calls]}
            ELSE { After(o.calls, r) : r \in
                   interpolateMappingLoop(values, path, v, todo \ {key},
                                          result @@ (key :> o.value)) } :
            o \in recursively(values[key], PathAppend(path, key), v) } :
         key \in todo }

\* the range loop of interpolateMapping with the keys of todo still to visit
interpolateMappingLoop(values, path, v, todo, result) ==
    IF todo = {}
    THEN {[value |-> Mapping(result), err |-> NilError, calls |-> <<>>]}
    ELSE UNION { UNION {
            IF o.err.failed
            THEN {[value |-> NilMapping, err |-> o.err, calls |-> o.calls]}
            ELSE { After(o.calls, r) : r \in
                   interpolateMappingLoop(values, path, v, todo \ {key},
                                          result @@ (key :> o.value)) } :
            o \in recursively(values[key], PathAppend(path, key), v) } :
         key \in todo }

interpolateMapping(values, path, v) ==
    interpolateMappingLoop(values, path, v, DOMAIN values, EmptyMap)

RECURSIVE interpolateSequenceLoop(_, _, _, _, _)

\* the range loop of interpolateSequence with one path for all elements,
\* each element's index being appended to what the one before it left
interpolateSequenceLoopSharedPath(values, path, v, idx, result) ==
    IF idx >= Len(values)
    THEN {[value |-> Sequence(result), err |-> NilError, calls |-> <<>>]}
    ELSE UNION {
            IF o.err.failed
            THEN {[value |-> NilSequence, err |-> o.err, calls |-> o.calls]}
            ELSE { After(o.calls, r) : r \in
                   interpolateSequenceLoop(values,
                                           PathAppendIndex(path, idx), v,
                                           idx + 1,
                                           Append(result, o.value)) } :
            o \in recursively(At(values, idx), PathAppendIndex(path, idx),
                              v) }

\* the range loop of interpolateSequence going on to the end of the
\* sequence after an element has failed, and returning the first error
interpolateSequenceLoopGoingOn(values, path, v, idx, result) ==
    IF idx >= Len(values)
    THEN {[value |-> Sequence(result), err |-> NilError, calls |-> <<>>]}
    ELSE UNION {
            IF o.err.failed
            THEN { [value |-> NilSequence, err |-> o.err,
                    calls |-> o.calls \o r.calls] : r \in
                   interpolateSequenceLoop(values, path, v, idx + 1,
                                           result) }
            ELSE { After(o.calls, r) : r \in
                   interpolateSequenceLoop(values, path, v, idx + 1,
                                           Append(result, o.value)) } :
            o \in recursively(At(values, idx), PathAppendIndex(path, idx),
                              v) }

\* the range loop of interpolateSequence from index idx on
interpolateSequenceLoop(values, path, v, idx, result) ==
    IF idx >= Len(values)
    THEN {[value |-> Sequence(result), err |-> NilError, calls |-> <<>>]}
    ELSE UNION {
            IF o.err.failed
            THEN {[value |-> NilSequence, err |-> o.err, calls |-> o.calls]}
            ELSE { After(o.calls, r) : r \in
                   interpolateSequenceLoop(values, path, v, idx + 1,
                                           Append(result, o.value)) } :
            o \in recursively(At(values, idx), PathAppendIndex(path, idx),
                              v) }

\* interpolateSequence building its result back to front
RECURSIVE interpolateSequenceLoopPrepending(_, _, _, _, _)
interpolateSequenceLoopPrepending(values, path, v, idx, result) ==
    IF idx >= Len(values)
    THEN {[value |-> Sequence(result), err |-> NilError, calls |-> <<>>]}
    ELSE UNION {
            IF o.err.failed
            THEN {[value |-> NilSequence, err |-> o.err, calls |-> o.calls]}
            ELSE { After(o.calls, r) : r \in
                   interpolateSequenceLoopPrepending(
                      values, path, v, idx + 1, <<o.value>> \o result) } :
            o \in recursively(At(values, idx), PathAppendIndex(path, idx),
                              v) }

interpolateSequencePrepending(values, path, v) ==
    interpolateSequenceLoopPrepending(values, path, v, 0, <<>>)

\* interpolateSequence visiting the elements in no fixed order
RECURSIVE interpolateSequenceAnyOrderLoop(_, _, _, _, _)
interpolateSequenceAnyOrderLoop(values, path, v, todo, result) ==
    IF todo = {}
    THEN {[value |-> Sequence(result), err |-> NilError, calls |-> <<>>]}
    ELSE UNION { UNION {
            IF o.err.failed
            THEN {[value |-> NilSequence, err |-> o.err, calls |-> o.calls]}
            ELSE { After(o.calls, r) : r \in
                   interpolateSequenceAnyOrderLoop(
                      values, path, v, todo \ {idx},
                      [result EXCEPT ![idx + 1] = o.value]) } :
            o \in recursively(At(values, idx), PathAppendIndex(path, idx),
                              v) } :
         idx \in todo }

interpolateSequenceAnyOrder(values, path, v) ==
    interpolateSequenceAnyOrderLoop(values, path, v,
                                    { i - 1 : i \in DOMAIN values }, values)

interpolateSequence(values, path, v) ==
    interpolateSequenceLoop(values, path, v, 0, <<>>)

recursively(d, path, v) ==
    CASE d.kind = "string" ->
            {StringOutcome(interpolateString(d.str, path, v), path, d.str)}
      [] d.kind = "map" -> interpolateMapping(d.entries, path, v)
      [] d.kind = "seq" -> interpolateSequence(d.elems, path, v)
      [] OTHER -> {[value |-> d, err |-> NilError, calls |-> <<>>]}

RECURSIVE VariablesLoop(_, _, _, _)

\* the range loop of Variables handing each top-level value the path of its
\* key
VariablesLoopFromKey(m, v, todo, result) ==
    IF todo = {}
    THEN {[value |-> Mapping(result), err |-> NilError, calls |-> <<>>]}
    ELSE UNION { UNION {
            IF o.err.failed
            THEN {[value |-> NilMapping, err |-> o.err, calls |-> o.calls]}
            ELSE { After(o.calls, r) : r \in
                   VariablesLoop(m, v, todo \ {key},
                                 result @@ (key :> o.value)) } :
            o \in recursively(m[key], PathAppend(<<>>, key), v) } :
         key \in todo }

\* the range loop of Variables with the keys of todo still to visit
VariablesLoop(m, v, todo, result) ==
    IF todo = {}
    THEN {[value |-> Mapping(result), err |-> NilError, calls |-> <<>>]}
    ELSE UNION { UNION {
            IF o.err.failed
            THEN {[value |-> NilMapping, err |-> o.err, calls |-> o.calls]}
            ELSE { After(o.calls, r) : r \in
                   VariablesLoop(m, v, todo \ {key},
                                 result @@ (key :> o.value)) } :
            o \in recursively(m[key], <<>>, v) } :
         key \in todo }

\* Variables starting every top-level value at the path of its key
VariablesFromRoot(m, v) == interpolateMapping(m, <<>>, v)

Variables(m, v) == VariablesLoop(m, v, DOMAIN m, EmptyMap)

(***************************************************************************)
(* The tree walker on stored values.  A Go map and a Go slice are          *)
(* references: a value of type map[string]any or []any names an object in  *)
(* memory that every holder of the value shares.  The memory is a sequence *)
(* of objects, an address is an index into it, and a slot of an object     *)
(* holds a string, another scalar or a reference.  The walker's code is    *)
(* the same as above; here every make and every write is spelled out.      *)
(***************************************************************************)
Ref(a) == [kind |-> "ref", addr |-> a]
NilRef == [kind |-> "nil"]

MapObject(m) == [obj |-> "map", slots |-> m]
SeqObject(q) == [obj |-> "seq", items |-> q]
VarsObject(v) == [obj |-> "vars", table |-> v]

\* map[string]any{}
EmptySlots == [k \in {} |-> NilRef]

\* result[key] = value on the map at address r
SetKey(h, r, key, value) ==
    [h EXCEPT ![r] = MapObject(h[r].slots @@ (key :> value))]

\* result = append(result, value) within the capacity make reserved
AppendItem(h, r, value) ==
    [h EXCEPT ![r] = SeqObject(Append(h[r].items, value))]

RECURSIVE recursivelyHeap(_, _, _, _)

\* the range loop of interpolateMapping: values at address a, result at r
RECURSIVE interpolateMappingHeapLoop(_, _, _, _, _, _)
interpolateMappingHeapLoop(h, a, path, va, todo, r) ==
    IF todo = {}
    THEN {[heap |-> h, value |-> Ref(r), err |-> NilError]}
    ELSE UNION { UNION {
            IF o.err.failed
            THEN {[heap |-> o.heap, value |-> NilRef, err |-> o.err]}
            ELSE interpolateMappingHeapLoop(SetKey(o.heap, r, key, o.value),
                                            a, path, va, todo \ {key}, r) :
            o \in recursivelyHeap(h, h[a].slots[key], PathAppend(path, key),
                                  va) } :
         key \in todo }

interpolateMappingHeap(h, a, path, va) ==
    interpolateMappingHeapLoop(Append(h, MapObject(EmptySlots)), a, path, va,
                               DOMAIN h[a].slots, Len(h) + 1)

\* the range loop of interpolateSequence from index idx on
RECURSIVE interpolateSequenceHeapLoop(_, _, _, _, _, _)
interpolateSequenceHeapLoop(h, a, path, va, idx, r) ==
    IF idx >= Len(h[a].items)
    THEN {[heap |-> h, value |-> Ref(r), err |-> NilError]}
    ELSE UNION {
            IF o.err.failed
            THEN {[heap |-> o.heap, value |-> NilRef, err |-> o.err]}
            ELSE interpolateSequenceHeapLoop(AppendItem(o.heap, r, o.value),
                                             a, path, va, idx + 1, r) :
            o \in recursivelyHeap(h, At(h[a].items, idx),
                                  PathAppendIndex(path, idx), va) }

\* interpolateSequence storing every interpolated element back into values
\* and returning values
RECURSIVE interpolateSequenceHeapInPlaceLoop(_, _, _, _, _)
interpolateSequenceHeapInPlaceLoop(h, a, path, va, idx) ==
    IF idx >= Len(h[a].items)
    THEN {[heap |-> h, value |-> Ref(a), err |-> NilError]}
    ELSE UNION {
            IF o.err.failed
            THEN {[heap |-> o.heap, value |-> NilRef, err |-> o.err]}
            ELSE interpolateSequenceHeapInPlaceLoop(
                    [o.heap EXCEPT ![a] =
                        SeqObject([o.heap[a].items EXCEPT ![idx + 1] =
                                      o.value])],
                    a, path, va, idx + 1) :
            o \in recursivelyHeap(h, At(h[a].items, idx),
                                  PathAppendIndex(path, idx), va) }

interpolateSequenceHeapInPlace(h, a, path, va) ==
    interpolateSequenceHeapInPlaceLoop(h, a, path, va, 0)

interpolateSequenceHeap(h, a, path, va) ==
    interpolateSequenceHeapLoop(Append(h, SeqObject(<<>>)), a, path, va, 0,
                                Len(h) + 1)

\* the string case of recursively: strings are values, nothing is stored
StringHeapOutcome(h, r) ==
    [heap |-> h, value |-> String(r.text), err |-> r.err]

\* the type switch of recursively on the value held by slot
recursivelyHeap(h, slot, path, va) ==
    CASE slot.kind = "string" ->
            {StringHeapOutcome(
                h, interpolateString(slot.str, path, h[va].table))}
      [] slot.kind = "ref" /\ h[slot.addr].obj = "map" ->
            interpolateMappingHeap(h, slot.addr, path, va)
      [] slot.kind = "ref" /\ h[slot.addr].obj = "seq" ->
            interpolateSequenceHeap(h, slot.addr, path, va)
      [] OTHER -> {[heap |-> h, value |-> slot, err |-> NilError]}

\* the range loop of Variables: data at address a, result at r
RECURSIVE VariablesHeapLoop(_, _, _, _, _)
VariablesHeapLoop(h, a, va, todo, r) ==
    IF todo = {}
    THEN {[heap |-> h, value |-> Ref(r), err |-> NilError]}
    ELSE UNION { UNION {
            IF o.err.failed
            THEN {[heap |-> o.heap, value |-> NilRef, err |-> o.err]}
            ELSE VariablesHeapLoop(SetKey(o.heap, r, key, o.value), a, va,
                                   todo \ {key}, r) :
            o \in recursivelyHeap(h, h[a].slots[key], <<>>, va) } :
         key \in todo }

VariablesHeap(h, a, va) ==
    VariablesHeapLoop(Append(h, MapObject(EmptySlots)), a, va,
                      DOMAIN h[a].slots, Len(h) + 1)

\* the caller's side: the value d stored into memory, inner values first;
\* yields the memory and the slot that holds d
RECURSIVE Store(_, _)
RECURSIVE StoreEntries(_, _, _, _)
StoreEntries(h, m, todo, slots) ==
    IF todo = {}
    THEN [heap |-> Append(h, MapObject(slots)), slot |-> Ref(Len(h) + 1)]
    ELSE LET k == CHOOSE j \in todo : TRUE
             r == Store(h, m[k])
         IN  StoreEntries(r.heap, m, todo \ {k}, slots @@ (k :> r.slot))

RECURSIVE StoreElems(_, _, _, _)
StoreElems(h, q, i, items) ==
    IF i > Len(q)
    THEN [heap |-> Append(h, SeqObject(items)), slot |-> Ref(Len(h) + 1)]
    ELSE LET r == Store(h, q[i])
         IN  StoreElems(r.heap, q, i + 1, Append(items, r.slot))

Store(h, d) ==
    CASE d.kind = "map" ->
            StoreEntries(h, d.entries, DOMAIN d.entries, EmptySlots)
      [] d.kind = "seq" -> StoreElems(h, d.elems, 1, <<>>)
      [] OTHER -> [heap |-> h, slot |-> d]

\* the caller's side: the value a slot holds, read out of memory; the nil
\* a failing Variables returns is a nil map[string]any
RECURSIVE Load(_, _)
Load(h, slot) ==
    CASE slot.kind = "nil" -> NilMapping
      [] slot.kind = "ref" /\ h[slot.addr].obj = "map" ->
            Mapping([k \in DOMAIN h[slot.addr].slots |->
                        Load(h, h[slot.addr].slots[k])])
      [] slot.kind = "ref" /\ h[slot.addr].obj = "seq" ->
            Sequence([i \in DOMAIN h[slot.addr].items |->
                        Load(h, h[slot.addr].items[i])])
      [] OTHER -> slot

(***************************************************************************)
(* Bounds and inputs.                                                      *)
(***************************************************************************)
MaxPieces == 4
MaxNodes == 5

\* the pieces an input string is built from: the characters the parser
\* tells apart, the escape, an opened braced reference (with and without
\* the colon of an operator) and two complete references
Pieces ==
    { <<"$">>, <<"{">>, <<"}">>, <<"A">>, <<"1">>, <<"-">>, <<"?">>, <<"+">>,
      <<"$", "$">>,
      <<"$", "{", "A">>,
      <<"$", "{", "A", ":">>,
      <<"$", "{", "B", "}">>,
      <<"$", "{", "B", "?", "1", "}">> }

\* the malformed strings of the parser's tests
FailingExamples ==
    { <<"f", "o", "o", "$">>,
      <<"f", "o", "o", "$", "{">>,
      <<"f", "o", "o", "$", "{", "b", "a", "r">>,
      <<"f", "o", "o", "$", "{", "b", "a", "r", "*", "a", "b", "c", "}">>,
      <<"f", "o", "o", "$", "{", "b", "a", "r", "?">>,
      <<"f", "o", "o", "$", "{", "b", "a", "r", ":">>,
      <<"f", "o", "o", "$", "{", "b", "a", "r", ":", "*">> }

\* three strings with nested references, and every string got by cutting
\* one of them off
NestedExamples ==
    { <<"a", "$", "{", "A", ":", "-", "b", "$", "{", "B", "-", "$", "$", "c",
        "}", "d", "}", "e">>,
      <<"$", "{", "A", "?", "$", "{", "B", "}", "x", "}">>,
      <<"$", "{", "A", "+", "$", "{", "B", ":", "?", "$", "{", "A", "}", "}",
        "}">> }

\* the strings the tests hand to parseName
NameExamples ==
    { <<"_", "a", "b", "c", "1", "2", "3", "D", "E", "F">>,
      <<"_", "a", "b", "c", "1", "2", "3", "d", "e", "f", "-", "f", "o", "o">>,
      <<"a", "b", "c", "_", "1", "2", "3", "_", "d", "e", "f">>,
      <<"1", "2", "3">>,
      <<"$">> }

\* strings with an unbraced reference
UnbracedExamples ==
    { <<"f", "o", "o", "$", "b", "a", "r", ".", "b", "a", "z">>,
      <<"f", "o", "o", "$", "b", "a", "r">>,
      <<"x", "$", "_", "1", ".", "y">> }

\* strings with braces that open or close nothing
BraceExamples ==
    { <<"$", "{", "A", "-", "x", "{", "y", "}", "z", "}">>,
      <<"f", "o", "o", " ", "{", "-", "}", " ", "b", "a", "r">> }

\* strings whose rendering holds a $ that stands for itself
SinglePassExamples ==
    { <<"$", "{", "B", "-", "$", "A", "}">>,
      <<"$", "{", "B", ":", "-", "$", "$", "A", "}">> }

CutOffs ==
    UNION { { SubSeq(full, 1, n) : n \in 0..Len(full) } :
            full \in NestedExamples }

\* the strings a caller hands to parse whole
Examples ==
    FailingExamples \cup CutOffs \cup NameExamples \cup UnbracedExamples
    \cup BraceExamples \cup SinglePassExamples

NameA == <<"A">>
NameB == <<"B">>

\* the variable mappings: A absent, empty or holding text that looks like a
\* reference; B absent or set
VarMaps ==
    { [n \in D |-> IF n = NameA THEN va ELSE <<"1">>] :
        D \in SUBSET {NameA, NameB},
        va \in { <<>>, <<"$", "B">>, <<"$", "{", "B">> } }

NoVars == [n \in {} |-> <<>>]

\* the documents: the mappings of at most MaxNodes nodes over two keys and
\* five leaves, of which one fails to parse and one fails to render when B
\* is unset
KeyBar == <<"b", "a", "r">>
KeyFoo == <<"f", "o", "o">>
Keys == {KeyBar, KeyFoo}

Leaves ==
    { String(<<>>),
      String(<<"$", "A">>),
      String(<<"$", "{", "A">>),
      String(<<"$", "{", "B", "?", "1", "}">>),
      Int(42) }

\* the values a caller adds to a document: a leaf or an empty container
Seeds == Leaves \cup { Sequence(<<>>), Mapping(EmptyMap) }

\* the number of nodes of a value
RECURSIVE Size(_)
RECURSIVE SizeOfAll(_, _)
SizeOfAll(f, D) ==
    IF D = {}
    THEN 0
    ELSE LET k == CHOOSE j \in D : TRUE
         IN  Size(f[k]) + SizeOfAll(f, D \ {k})

Size(d) ==
    CASE d.kind = "map" -> 1 + SizeOfAll(d.entries, DOMAIN d.entries)
      [] d.kind = "seq" -> 1 + SizeOfAll(d.elems, DOMAIN d.elems)
      [] OTHER -> 1

\* the values got from d by adding one seed: under a new key of a mapping
\* or at the end of a sequence, at any depth
RECURSIVE Grow(_)
Grow(d) ==
    CASE d.kind = "map" ->
            { Mapping(d.entries @@ (k :> x)) :
                k \in Keys \ DOMAIN d.entries, x \in Seeds }
            \cup UNION { { Mapping([d.entries EXCEPT ![k] = y]) :
                             y \in Grow(d.entries[k]) } :
                         k \in DOMAIN d.entries }
      [] d.kind = "seq" ->
            { Sequence(Append(d.elems, x)) : x \in Seeds }
            \cup UNION { { Sequence([d.elems EXCEPT ![i] = y]) :
                             y \in Grow(d.elems[i]) } :
                         i \in DOMAIN d.elems }
      [] OTHER -> {}

TreeVarMaps == { v \in VarMaps : DOMAIN v \in {{}, {NameA, NameB}} }

StartPaths == { <<>>, <<"m">> }

NoParse == [segments |-> <<>>, nilSegments |-> TRUE, err |-> NilError]
NoText == [text |-> <<>>, err |-> NilError]
NoOutcome == [value |-> NilMapping, err |-> NilError]
NoMem ==
    [before |-> <<>>, after |-> <<>>, data |-> 0, vars |-> 0,
     result |-> NilRef, err |-> NilError]

(***************************************************************************)
(* Spec: a caller composes a string, parses it and renders the segments.   *)
(***************************************************************************)
\* the caller starts from the empty string, to compose one from pieces, or
\* from one of the examples, to which it adds nothing
Init ==
    /\ pc = "input"
    /\ vars = NoVars
    /\ input \in {<<>>} \cup Examples
    /\ npieces = IF input = <<>> THEN 0 ELSE MaxPieces
    /\ parsed = NoParse
    /\ rendered = NoText
    /\ lexed = <<>>
    /\ data = EmptyMap
    /\ entry = "none"
    /\ startPath = <<>>
    /\ outcome = NoOutcome
    /\ second = NoOutcome
    /\ visited = <<>>
    /\ mem = NoMem
    /\ stack = <<>>
    /\ reads = NoReads

\* the caller composes the string it will hand to parse
AppendPiece ==
    /\ pc = "input"
    /\ npieces < MaxPieces
    /\ \E p \in Pieces : input' = input \o p
    /\ npieces' = npieces + 1
    /\ UNCHANGED <<pc, vars, parsed, rendered, lexed, cvars, tvars>>

\* segments, err := parse(input)
Parse ==
    /\ pc = "input"
    /\ parsed' = parse(input)
    /\ pc' = "parsed"
    /\ UNCHANGED <<vars, input, npieces, rendered, lexed, cvars, tvars>>

\* segments.Text(vars) on the segments of a successful parse
Render ==
    /\ pc = "parsed"
    /\ ~parsed.err.failed
    /\ \E v \in VarMaps :
          /\ vars' = v
          /\ rendered' = SegmentsText(parsed.segments, v)
    /\ pc' = "rendered"
    /\ UNCHANGED <<input, npieces, parsed, lexed, cvars, tvars>>

\* parseName(input), as the package's tests call it
CallParseName ==
    /\ pc = "input"
    /\ lexed' = parseName(input)
    /\ pc' = "lexed"
    /\ UNCHANGED <<vars, input, npieces, parsed, rendered, cvars, tvars>>

Next == AppendPiece \/ Parse \/ Render \/ CallParseName

Spec == Init /\ [][Next]_allvars

(***************************************************************************)
(* SpecScan: as Spec, with parse taken step by step.                       *)
(***************************************************************************)
\* parse(input) is called: parseRecursive(s, false)
StartParse ==
    /\ pc = "input"
    /\ stack' = <<Frame(input, FALSE, 0)>>
    /\ reads' = NoReads
    /\ pc' = "scanning"
    /\ UNCHANGED <<vars, input, npieces, parsed, rendered, lexed, tvars>>

\* the innermost call of parseRecursive takes one step
ScanStep ==
    /\ pc = "scanning"
    /\ \E r \in {step(stack[Len(stack)])} :
          /\ reads' = r.reads
          /\ CASE r.kind = "continue" ->
                    /\ stack' = [stack EXCEPT ![Len(stack)] = r.frame]
                    /\ UNCHANGED <<pc, parsed>>
               [] r.kind = "call" ->
                    /\ stack' =
                          Append([stack EXCEPT ![Len(stack)] = r.frame],
                                 Frame(From(r.frame.s, r.frame.at), TRUE,
                                       r.frame.base + r.frame.at))
                    /\ UNCHANGED <<pc, parsed>>
               [] r.kind = "return" /\ Len(stack) > 1 ->
                    /\ stack' =
                          [SubSeq(stack, 1, Len(stack) - 1)
                             EXCEPT ![Len(stack) - 1] =
                                resume(stack[Len(stack) - 1], r.segments,
                                       r.idx)]
                    /\ UNCHANGED <<pc, parsed>>
               [] r.kind = "return" /\ Len(stack) = 1 ->
                    /\ stack' = <<>>
                    /\ parsed' = [segments |-> r.segments,
                                  nilSegments |-> FALSE, err |-> NilError]
                    /\ pc' = "parsed"
               [] r.kind = "fail" ->
                    /\ stack' = <<>>
                    /\ parsed' = [segments |-> <<>>, nilSegments |-> TRUE,
                                  err |-> r.err]
                    /\ pc' = "parsed"
    /\ UNCHANGED <<vars, input, npieces, rendered, lexed, tvars>>

NextScan == AppendPiece \/ StartParse \/ ScanStep \/ Render

SpecScan == Init /\ [][NextScan]_allvars

(***************************************************************************)
(* SpecTree: a caller hands a document and a variable mapping to the tree  *)
(* walker.                                                                 *)
(***************************************************************************)
InitTree ==
    /\ pc = "tree"
    /\ vars = NoVars
    /\ data = EmptyMap
    /\ entry = "none"
    /\ startPath = <<>>
    /\ outcome = NoOutcome
    /\ second = NoOutcome
    /\ visited = <<>>
    /\ mem = NoMem
    /\ input = <<>>
    /\ npieces = 0
    /\ parsed = NoParse
    /\ rendered = NoText
    /\ lexed = <<>>
    /\ stack = <<>>
    /\ reads = NoReads

\* the caller composes the document it will hand to the walker
AddNode ==
    /\ pc = "tree"
    /\ Size(Mapping(data)) < MaxNodes
    /\ \E d \in Grow(Mapping(data)) : data' = d.entries
    /\ UNCHANGED <<pc, vars, entry, startPath, outcome, second, visited,
                   mem, svars>>

\* Variables(data, vars)
CallVariables ==
    /\ pc = "tree"
    /\ \E v \in TreeVarMaps :
          /\ vars' = v
          /\ \E o \in Variables(data, v) :
                /\ outcome' = Returned(o)
                /\ visited' = o.calls
    /\ entry' = "Variables"
    /\ startPath' = <<>>
    /\ pc' = "called"
    /\ UNCHANGED <<data, second, mem, svars>>

\* interpolateMapping(data, path, vars), as the package's tests call it
CallInterpolateMapping ==
    /\ pc = "tree"
    /\ \E v \in TreeVarMaps, p \in StartPaths :
          /\ vars' = v
          /\ startPath' = p
          /\ \E o \in interpolateMapping(data, p, v) :
                /\ outcome' = Returned(o)
                /\ visited' = o.calls
    /\ entry' = "interpolateMapping"
    /\ pc' = "called"
    /\ UNCHANGED <<data, second, mem, svars>>

\* Variables(data, vars) with data and vars stored in memory: the variable
\* mapping at address 1, the document after it
CallVariablesStored ==
    /\ pc = "tree"
    /\ \E v \in TreeVarMaps :
          /\ vars' = v
          /\ \E st \in {Store(<<VarsObject(v)>>, Mapping(data))} :
             \E o \in VariablesHeap(st.heap, st.slot.addr, 1) :
                /\ mem' = [before |-> st.heap, after |-> o.heap,
                           data |-> st.slot.addr, vars |-> 1,
                           result |-> o.value, err |-> o.err]
                /\ outcome' = [value |-> Load(o.heap, o.value),
                               err |-> o.err]
    /\ entry' = "Variables"
    /\ startPath' = <<>>
    /\ pc' = "called"
    /\ UNCHANGED <<data, second, visited, svars>>

\* the caller repeats the call with the same document and variable mapping
CallAgain ==
    /\ pc = "called"
    /\ \E o \in (IF entry = "Variables"
                 THEN Variables(data, vars)
                 ELSE interpolateMapping(data, startPath, vars)) :
          second' = Returned(o)
    /\ pc' = "called again"
    /\ UNCHANGED <<vars, data, entry, startPath, outcome, visited, mem,
                   svars>>

NextTree ==
    \/ AddNode
    \/ CallVariables
    \/ CallInterpolateMapping
    \/ CallVariablesStored
    \/ CallAgain

SpecTree == InitTree /\ [][NextTree]_allvars

(***************************************************************************)
(* Properties of the parser and the evaluator, checked under Spec.         *)
(***************************************************************************)
ParseReturned == pc \in {"parsed", "rendered"}
Parsed == ParseReturned /\ ~parsed.err.failed
Rendered == pc = "rendered"

\* the input was a single reference with operation op, and it was rendered
RenderedOne(op) ==
    /\ Rendered
    /\ Len(parsed.segments) = 1
    /\ parsed.segments[1].type = "Substitution"
    /\ parsed.segments[1].Operation = op

TheName == parsed.segments[1].VariableName
IsSet == TheName \in DOMAIN vars
IsSetAndNotEmpty == IsSet /\ vars[TheName] # <<>>
TheValue == [text |-> vars[TheName], err |-> NilError]
TheAlt == SegmentsText(parsed.segments[1].AltValue, vars)
Nothing == [text |-> <<>>, err |-> NilError]

\* C3: ${N-alt} renders the rendered alt exactly when N is unset and N's
\* value otherwise, an empty one included; ${N:-alt} renders the rendered
\* alt exactly when N is unset or empty and N's value otherwise.
C3_DefaultOperators ==
    /\ RenderedOne(<<"-">>)
        => rendered = IF IsSet THEN TheValue ELSE TheAlt
    /\ RenderedOne(<<":", "-">>)
        => rendered = IF IsSetAndNotEmpty THEN TheValue ELSE TheAlt

\* ${A-1} with A set and empty renders the empty value, not the default
C3_Witness ==
    /\ RenderedOne(<<"-">>)
    /\ IsSet /\ vars[TheName] = <<>>
    /\ TheAlt.text # <<>>
    /\ rendered.text = <<>>

\* the outcome of an error operator that selected alt
Raised(alt) ==
    IF alt.err.failed
    THEN [text |-> <<>>, err |-> alt.err]
    ELSE [text |-> <<>>, err |-> NewError(alt.text)]

\* C4: ${N?alt} fails exactly when N is unset, ${N:?alt} exactly when N is
\* unset or empty; the message of the failure is the rendered alt, and
\* without failure the result is N's value.
C4_ErrorOperators ==
    /\ RenderedOne(<<"?">>)
        => /\ rendered.err.failed <=> ~IsSet
           /\ rendered = IF IsSet THEN TheValue ELSE Raised(TheAlt)
    /\ RenderedOne(<<":", "?">>)
        => /\ rendered.err.failed <=> ~IsSetAndNotEmpty
           /\ rendered = IF IsSetAndNotEmpty THEN TheValue
                         ELSE Raised(TheAlt)

\* ${A:?1} with A set and empty fails with the message 1
C4_Witness ==
    /\ RenderedOne(<<":", "?">>)
    /\ IsSet /\ vars[TheName] = <<>>
    /\ rendered.err = NewError(<<"1">>)

\* C5: ${N+alt} renders the rendered alt exactly when N is set, to
\* whatever value, and nothing when it is unset; ${N:+alt} renders the
\* rendered alt exactly when N is set and not empty, and nothing otherwise.
C5_ReplacementOperators ==
    /\ RenderedOne(<<"+">>)
        => rendered = IF IsSet THEN TheAlt ELSE Nothing
    /\ RenderedOne(<<":", "+">>)
        => rendered = IF IsSetAndNotEmpty THEN TheAlt ELSE Nothing

\* ${A+1} with A set and empty renders 1
C5_Witness ==
    /\ RenderedOne(<<"+">>)
    /\ IsSet /\ vars[TheName] = <<>>
    /\ rendered = [text |-> <<"1">>, err |-> NilError]

\* C6: a bare reference renders N's value when N is set and nothing when
\* it is unset, and never fails.
C6_BareReference ==
    RenderedOne(<<>>)
    => rendered = IF IsSet THEN TheValue ELSE Nothing

\* $A rendered against the mapping without any variable
C6_Witness ==
    /\ RenderedOne(<<>>)
    /\ input = <<"$", "A">>
    /\ vars = NoVars
    /\ rendered = Nothing

\* the inputs ${A<op><ref>} with a complete reference to B for alt
Opened(op) == <<"$", "{", "A">> \o op
RefB == <<"$", "{", "B", "}">>
RefBOrFail == <<"$", "{", "B", "?", "1", "}">>
NestedOps == { <<"-">>, <<"?">>, <<"+">>, <<":", "-">>, <<":", "?">>,
               <<":", "+">> }

\* C7: the alternative value is parsed into segments of its own, a
\* reference inside it becomes a nested Substitution rendered against the
\* same mapping, and the outer reference ends at the closing brace after
\* the nested one's; ${A+${B}} renders B's value when A is set and nothing
\* when A is unset.
C7_NestedInterpolation ==
    /\ \A op \in NestedOps, ref \in {RefB, RefBOrFail} :
          (ParseReturned /\ input = Opened(op) \o ref \o <<"}">>)
          => /\ ~parsed.err.failed
             /\ ~parse(ref).err.failed
             /\ parsed.segments =
                   <<Substitution(NameA, op, parse(ref).segments)>>
    /\ (ParseReturned /\ input = Opened(<<"+">>) \o RefB \o <<"}">>)
        => parsed.segments =
              <<Substitution(NameA, <<"+">>,
                             <<Substitution(NameB, <<>>, <<>>)>>)>>
    /\ (Rendered /\ input = Opened(<<"+">>) \o RefB \o <<"}">>)
        => rendered =
              IF NameA \in DOMAIN vars
              THEN [text |-> Lookup(vars, NameB).value, err |-> NilError]
              ELSE Nothing

\* ${A+${B}} rendered with A and B set
C7_Witness ==
    /\ Rendered
    /\ input = Opened(<<"+">>) \o RefB \o <<"}">>
    /\ NameA \in DOMAIN vars /\ NameB \in DOMAIN vars
    /\ rendered = [text |-> vars[NameB], err |-> NilError]

\* the number of $$ pairs a left-to-right scan of s from position i meets
RECURSIVE Escapes(_, _)
Escapes(s, i) ==
    IF i > Len(s)
    THEN 0
    ELSE IF s[i] = "$" /\ i < Len(s) /\ s[i + 1] = "$"
    THEN 1 + Escapes(s, i + 2)
    ELSE Escapes(s, i + 1)

\* the number of $ that scan meets before a { or the start of a name
RECURSIVE References(_, _)
References(s, i) ==
    IF i > Len(s)
    THEN 0
    ELSE IF s[i] = "$" /\ i < Len(s) /\ s[i + 1] = "$"
    THEN References(s, i + 2)
    ELSE IF s[i] = "$" /\ i < Len(s)
            /\ (s[i + 1] = "{" \/ IsNameStart(s[i + 1]))
    THEN 1 + References(s, i + 1)
    ELSE References(s, i + 1)

\* the number of $ in the plain text of segs, and the number of
\* substitutions of segs, at every nesting level
RECURSIVE Dollars(_)
RECURSIVE Substitutions(_)
Dollars(segs) ==
    IF segs = <<>>
    THEN 0
    ELSE LET seg == Head(segs)
         IN  (IF seg.type = "PlainText"
              THEN Cardinality({i \in DOMAIN seg.text : seg.text[i] = "$"})
              ELSE Dollars(seg.AltValue))
             + Dollars(Tail(segs))

Substitutions(segs) ==
    IF segs = <<>>
    THEN 0
    ELSE LET seg == Head(segs)
         IN  (IF seg.type = "PlainText"
              THEN 0
              ELSE 1 + Substitutions(seg.AltValue))
             + Substitutions(Tail(segs))

\* C8: every $$ of the input, at top level or inside an alternative value,
\* adds exactly one $ to the plain text around it and starts no
\* substitution; A$$A parses to the one segment PlainText("A$A").
C8_Escaping ==
    /\ Parsed
        => /\ Dollars(parsed.segments) = Escapes(input, 1)
           /\ Substitutions(parsed.segments) = References(input, 1)
    /\ (ParseReturned /\ input = <<"A", "$", "$", "A">>)
        => /\ ~parsed.err.failed
           /\ parsed.segments = <<PlainText(<<"A", "$", "A">>)>>

\* ${A-$$} parsed: the escape inside the alternative value
C8_Witness ==
    /\ Parsed
    /\ input = <<"$", "{", "A", "-", "$", "$", "}">>
    /\ parsed.segments =
          <<Substitution(NameA, <<"-">>, <<PlainText(<<"$">>)>>)>>

NoDollar(s) == \A i \in DOMAIN s : s[i] # "$"

\* C9: a string without $, braces included, parses, and its segments
\* render to the string itself against any mapping; if it is not empty it
\* parses to the one segment PlainText(s).
C9_PlainTextUnchanged ==
    (ParseReturned /\ NoDollar(input))
    => /\ ~parsed.err.failed
       /\ parsed.segments =
             IF input = <<>> THEN <<>> ELSE <<PlainText(input)>>
       /\ Rendered => rendered = [text |-> input, err |-> NilError]

\* a string with both braces rendered
C9_Witness ==
    /\ Rendered
    /\ NoDollar(input)
    /\ \E i, j \in DOMAIN input : input[i] = "{" /\ input[j] = "}"
    /\ rendered.text = input

\* the Substitutions of segs, at every nesting level
RECURSIVE AllSubstitutions(_)
AllSubstitutions(segs) ==
    UNION { IF segs[i].type = "Substitution"
            THEN {segs[i]} \cup AllSubstitutions(segs[i].AltValue)
            ELSE {} :
            i \in DOMAIN segs }

AltIffOperator(subst) == subst.AltValue # <<>> <=> subst.Operation # <<>>
AltOnlyWithOperator(subst) == subst.AltValue # <<>> => subst.Operation # <<>>

\* C15 (as claimed): at every nesting level a Substitution has a
\* non-empty alternative value if and only if its operation is not the
\* bare one.
C15_AltIffOperator ==
    Parsed => \A subst \in AllSubstitutions(parsed.segments) :
                 AltIffOperator(subst)

\* C15 (amended): at every nesting level a Substitution with the bare
\* operation has an empty alternative value; one with an operator has
\* the segments parsed up to the closing brace, which may be none:
\* ${A<op>} parses to the Substitution of A with <op> and an empty
\* alternative value, for each of the six operators.
C15_AltOnlyWithOperator ==
    /\ Parsed => \A subst \in AllSubstitutions(parsed.segments) :
                    AltOnlyWithOperator(subst)
    /\ \A op \in NestedOps :
          (ParseReturned /\ input = Opened(op) \o <<"}">>)
          => /\ ~parsed.err.failed
             /\ parsed.segments = <<Substitution(NameA, op, <<>>)>>

\* ${A:-} parsed and rendered with A unset: nothing
C15_Witness ==
    /\ Rendered
    /\ input = Opened(<<":", "-">>) \o <<"}">>
    /\ parsed.segments = <<Substitution(NameA, <<":", "-">>, <<>>)>>
    /\ NameA \notin DOMAIN vars
    /\ rendered = Nothing

\* position i holds the first $ of s, and the byte after it is none of $,
\* { and the start of a name
LoneDollarAt(s, i) ==
    /\ s[i] = "$"
    /\ \A j \in 1..(i - 1) : s[j] # "$"
    /\ i < Len(s)
    /\ s[i + 1] \notin {"$", "{"}
    /\ ~IsNameStart(s[i + 1])

\* s without its byte at position i
Without(s, i) == SubSeq(s, 1, i - 1) \o SubSeq(s, i + 1, Len(s))

\* C16 (as claimed): a $ followed by a byte that is none of $, { and the
\* start of a name is dropped and nothing else: parse returns what it
\* returns for the string without that $, the byte after it being scanned
\* as any other byte.
C16_OnlyDollarConsumed ==
    ParseReturned
    => \A i \in DOMAIN input :
          LoneDollarAt(input, i) => parsed = parse(Without(input, i))

\* C17: whenever parse returns an error it returns nil for the segments,
\* whatever it had collected before the error and wherever the error is,
\* inside a nested alternative value too, and otherwise it returns
\* segments that are not nil; each of the seven malformed strings of the
\* tests fails.
C17_ParseErrorsAreTerminal ==
    ParseReturned
    => /\ parsed.err.failed => parsed.nilSegments /\ parsed.segments = <<>>
       /\ ~parsed.err.failed => ~parsed.nilSegments
       /\ input \in FailingExamples => parsed.err.failed

\* ${B}${A-${A parsed: a segment collected, then the reference inside the
\* alternative value is cut off
C17_Witness ==
    /\ ParseReturned
    /\ input = RefB \o Opened(<<"-">>) \o <<"$", "{", "A">>
    /\ parsed.err = NewError(errUnterminated)
    /\ parsed.nilSegments

\* the position of the first $ of s, 0 if there is none
FirstDollar(s) ==
    IF \E i \in DOMAIN s : s[i] = "$"
    THEN CHOOSE i \in DOMAIN s :
            s[i] = "$" /\ \A j \in 1..(i - 1) : s[j] # "$"
    ELSE 0

\* s opens its first reference with ${ and a name; AfterName is the
\* position after that name
OpensBraced(s) ==
    /\ FirstDollar(s) # 0
    /\ FirstDollar(s) < Len(s)
    /\ s[FirstDollar(s) + 1] = "{"
    /\ parseName(From(s, FirstDollar(s) + 1)) # <<>>

AfterName(s) ==
    FirstDollar(s) + 2 + Len(parseName(From(s, FirstDollar(s) + 1)))

OperatorBytes == {"?", "-", "+"}

ColonThenEnd(s) ==
    OpensBraced(s) /\ AfterName(s) = Len(s) /\ s[AfterName(s)] = ":"

ColonThenOther(s) ==
    /\ OpensBraced(s)
    /\ AfterName(s) < Len(s)
    /\ s[AfterName(s)] = ":"
    /\ s[AfterName(s) + 1] \notin OperatorBytes

NameThenOther(s) ==
    /\ OpensBraced(s)
    /\ AfterName(s) <= Len(s)
    /\ s[AfterName(s)] \notin OperatorBytes \cup {"}", ":"}

\* C18 (as claimed): a : after the name that is followed by the end of the
\* string fails with the same error as a : followed by a byte other than
\* ?, - and +, and as a name followed by a byte that is none of }, ?, -,
\* + and :.
C18_SameInvalidOperation ==
    (ParseReturned
       /\ (ColonThenEnd(input) \/ ColonThenOther(input)
             \/ NameThenOther(input)))
    => parsed.err = NewError(errInvalidOp)

\* C18 (amended): a : after the name that is followed by the end of the
\* string fails with "incomplete variable substitution operation"; a :
\* followed by a byte other than ?, - and +, and a name followed by a byte
\* that is none of }, ?, -, + and :, fail with "invalid variable
\* substitution operation".
C18_IncompleteOrInvalidOperation ==
    ParseReturned
    => /\ ColonThenEnd(input) => parsed.err = NewError(errIncompleteOp)
       /\ ColonThenOther(input) => parsed.err = NewError(errInvalidOp)
       /\ NameThenOther(input) => parsed.err = NewError(errInvalidOp)

\* foo${bar: parsed
C18_Witness ==
    /\ ParseReturned
    /\ ColonThenEnd(input)
    /\ input = <<"f", "o", "o", "$", "{", "b", "a", "r", ":">>
    /\ parsed.err = NewError(errIncompleteOp)

\* the number of ${ in s
Openers(s) ==
    Cardinality({ i \in 1..(Len(s) - 1) : s[i] = "$" /\ s[i + 1] = "{" })

\* the number of ${ of s less the number of its closing braces: for a
\* string cut off from one of NestedExamples, the number of braced
\* references it ends inside of
Depth(s) ==
    Openers(s) - Cardinality({ i \in DOMAIN s : s[i] = "}" })

IsNameByte(ch) == IsNameStart(ch) \/ ch \in Digits

\* the number of $ s ends with
RECURSIVE TrailingDollars(_)
TrailingDollars(s) ==
    IF s = <<>> \/ s[Len(s)] # "$"
    THEN 0
    ELSE 1 + TrailingDollars(SubSeq(s, 1, Len(s) - 1))

\* where a string cut off inside a braced reference ends: after a $ that
\* is not the second of $$, after ${, after the name that follows ${, or
\* after the colon that follows that name
EndsWithDollar(s) == TrailingDollars(s) % 2 = 1

EndsWithOpener(s) ==
    Len(s) >= 2 /\ s[Len(s)] = "{" /\ s[Len(s) - 1] = "$"

EndsAfterName(s) ==
    \E i \in DOMAIN s :
       /\ i + 2 <= Len(s)
       /\ s[i] = "$" /\ s[i + 1] = "{"
       /\ IsNameStart(s[i + 2])
       /\ \A j \in (i + 2)..Len(s) : IsNameByte(s[j])

EndsWithColon(s) ==
    /\ s # <<>>
    /\ s[Len(s)] = ":"
    /\ EndsAfterName(SubSeq(s, 1, Len(s) - 1))

\* the string ends after an operator: inside an alternative value
EndsInAltValue(s) ==
    \/ Depth(s) >= 2
    \/ /\ Depth(s) = 1
       /\ ~EndsWithOpener(s) /\ ~EndsAfterName(s) /\ ~EndsWithColon(s)

CutOffInside == ParseReturned /\ input \in CutOffs /\ Depth(input) > 0

\* C19 (as claimed): a string that ends inside a braced reference fails:
\* with "unterminated ${" when it ends directly after a variable name, and
\* with "unclosed braced variable substitution" when it ends after the
\* operator or anywhere inside the alternative value, at any depth.
C19_UnterminatedOrUnclosed ==
    CutOffInside
    => /\ parsed.err.failed
       /\ EndsAfterName(input) => parsed.err = NewError(errUnterminated)
       /\ (EndsInAltValue(input) /\ ~EndsAfterName(input))
           => parsed.err = NewError(errUnclosed)

\* C19 (amended): a string that ends inside a braced reference fails, with
\* the error of the innermost construct it ends in: "invalid stand-alone
\* $" directly after a $ that is not the second of $$, "missing variable
\* name after ${" directly after ${, "unterminated ${" directly after a
\* variable name, "incomplete variable substitution operation" directly
\* after the colon of an operator, and "unclosed braced variable
\* substitution" anywhere else: after the operator and inside the
\* alternative value, at any depth.
C19_EndOfStringInsideBraces ==
    CutOffInside
    => /\ parsed.err.failed
       /\ parsed.err.msg =
             IF EndsWithDollar(input) THEN errStandAlone
             ELSE IF EndsWithOpener(input) THEN errMissingName
             ELSE IF EndsAfterName(input) THEN errUnterminated
             ELSE IF EndsWithColon(input) THEN errIncompleteOp
             ELSE errUnclosed

\* a${A:-b${B-$ parsed: the string ends after the $ of the inner
\* alternative value
C19_Witness ==
    /\ CutOffInside
    /\ Depth(input) = 2
    /\ EndsWithDollar(input)
    /\ parsed.err = NewError(errStandAlone)

\* the operation op of the rendered reference selects the alternative
\* value
Selects(op) ==
    CASE op \in {<<"?">>, <<"-">>} -> ~IsSet
      [] op \in {<<":", "?">>, <<":", "-">>} -> ~IsSetAndNotEmpty
      [] op = <<"+">> -> IsSet
      [] op = <<":", "+">> -> IsSetAndNotEmpty

\* C20: when the operator of a reference selects the alternative value and
\* rendering the alternative value fails, the reference fails with the
\* alternative value's error and renders no text, for each of the six
\* operators; ${A<op>${B?1}} with the alternative value selected and B
\* unset fails with B's error 1, for ? and :? in place of the error the
\* user asked for.
C20_AltErrorPropagates ==
    \A op \in NestedOps :
       (RenderedOne(op) /\ Selects(op) /\ TheAlt.err.failed)
       => /\ rendered = [text |-> <<>>, err |-> TheAlt.err]
          /\ input = Opened(op) \o RefBOrFail \o <<"}">>
              => rendered.err = NewError(<<"1">>)

\* ${A?${B?1}} rendered with neither A nor B set
C20_Witness ==
    /\ RenderedOne(<<"?">>)
    /\ input = Opened(<<"?">>) \o RefBOrFail \o <<"}">>
    /\ vars = NoVars
    /\ rendered = [text |-> <<>>, err |-> NewError(<<"1">>)]

\* the segments of the rendered sequence that fail on their own
Failing ==
    { i \in DOMAIN parsed.segments :
        SegmentText(parsed.segments[i], vars).err.failed }

\* the texts of the segments 1..n, one after the other
RECURSIVE TextsUpTo(_)
TextsUpTo(n) ==
    IF n = 0
    THEN <<>>
    ELSE TextsUpTo(n - 1) \o SegmentText(parsed.segments[n], vars).text

\* the error of the leftmost of the failing segments
LeftmostError ==
    SegmentText(parsed.segments[CHOOSE i \in Failing :
                                   \A j \in Failing : i <= j], vars).err

\* C21: rendering a segment sequence gives the texts of its segments one
\* after the other, in the order of the sequence; when one or more segments
\* fail it gives the error of the leftmost failing segment and no text.
C21_ConcatenationOrLeftmostError ==
    Rendered =>
       IF Failing = {}
       THEN rendered = [text |-> TextsUpTo(Len(parsed.segments)),
                        err |-> NilError]
       ELSE rendered = [text |-> <<>>, err |-> LeftmostError]

\* ${B?1}${A?} rendered without variables: both references fail, with
\* different errors, and the error is the first one's
C21_Witness ==
    /\ Rendered
    /\ input = RefBOrFail \o <<"$", "{", "A", "?", "}">>
    /\ Failing = {1, 2}
    /\ SegmentText(parsed.segments[2], vars).err = NewError(<<>>)
    /\ rendered = [text |-> <<>>, err |-> NewError(<<"1">>)]

Lexed == pc = "lexed"

\* n matches [A-Za-z_][A-Za-z0-9_]*
IsIdentifier(n) ==
    /\ n # <<>>
    /\ IsNameStart(n[1])
    /\ \A i \in 2..Len(n) : IsNameByte(n[i])

\* n is the longest prefix of s that is an identifier, and the empty string
\* when s has no such prefix
LongestIdentifierPrefix(s, n) ==
    /\ Len(n) <= Len(s)
    /\ n = SubSeq(s, 1, Len(n))
    /\ n = <<>> \/ IsIdentifier(n)
    /\ Len(n) < Len(s) =>
          IF n = <<>>
          THEN ~IsNameStart(s[1])
          ELSE ~IsNameByte(s[Len(n) + 1])

\* the text t as segments: none for the empty text
AsPlainText(t) == IF t = <<>> THEN <<>> ELSE <<PlainText(t)>>

\* the first $ of input is at i and starts an unbraced reference
FirstUnbracedAt(i) ==
    /\ i < Len(input)
    /\ input[i] = "$"
    /\ NoDollar(SubSeq(input, 1, i - 1))
    /\ IsNameStart(input[i + 1])

\* what parse finds from the first $ of input on, at i, the name of the
\* reference ending at j
UnbracedParsedAs(i, j) ==
    /\ LongestIdentifierPrefix(From(input, i), SubSeq(input, i + 1, j))
    /\ parsed.err = parse(From(input, j)).err
    /\ ~parsed.err.failed =>
          parsed.segments =
             AsPlainText(SubSeq(input, 1, i - 1))
             \o <<Substitution(SubSeq(input, i + 1, j), <<>>, <<>>)>>
             \o parse(From(input, j)).segments
    /\ NoDollar(From(input, j)) =>
          parse(From(input, j)).segments = AsPlainText(From(input, j))

\* C22: parseName returns the longest prefix of its input that matches
\* [A-Za-z_][A-Za-z0-9_]*, the empty string when the input starts with
\* neither a letter nor _ (so for a leading digit); an unbraced reference
\* $name takes exactly that longest identifier: the text before it, the
\* reference and what the text after it parses to follow each other in the
\* segments, text without $ being one PlainText segment.
C22_LongestIdentifier ==
    /\ Lexed => LongestIdentifierPrefix(input, lexed)
    /\ (Lexed /\ input # <<>> /\ ~IsNameStart(input[1])) => lexed = <<>>
    /\ ParseReturned =>
          \A i \in DOMAIN input :
             FirstUnbracedAt(i) =>
                \E j \in (i + 1)..Len(input) : UnbracedParsedAs(i, j)

\* foo$bar.baz parsed into foo, the reference to bar, and .baz
C22_Witness ==
    /\ ParseReturned
    /\ FirstUnbracedAt(4)
    /\ UnbracedParsedAs(4, 7)
    /\ parsed.segments =
          <<PlainText(<<"f", "o", "o">>),
            Substitution(<<"b", "a", "r">>, <<>>, <<>>),
            PlainText(<<".", "b", "a", "z">>)>>

IsPrefix(p, q) == Len(p) <= Len(q) /\ SubSeq(q, 1, Len(p)) = p

NoClosingBrace(s) == \A i \in DOMAIN s : s[i] # "}"

\* what follows the operator of the reference ${A<op> that input starts
\* with, up to position k - 1
AltText(op, k) == SubSeq(input, Len(Opened(op)) + 1, k - 1)

\* input starts with ${A<op> and the closing brace at k is the first one
\* after the operator, no ${ standing between them
FirstBraceAfter(op, k) ==
    /\ IsPrefix(Opened(op), input)
    /\ k > Len(Opened(op))
    /\ input[k] = "}"
    /\ NoClosingBrace(AltText(op, k))
    /\ Openers(AltText(op, k)) = 0

\* the closing brace at i stands at top level, no ${ standing before it
TopLevelBraceAt(i) ==
    /\ input[i] = "}"
    /\ Openers(SubSeq(input, 1, i)) = 0

BracesInAlt ==
    <<"$", "{", "A", "-", "x", "{", "y", "}", "z", "}">>

\* C26 (as claimed): braces are not counted in an alternative value: it
\* ends at the first } that closes no nested ${...}, and what follows is
\* top-level text again; a { without a $ before it opens nothing, so
\* ${A-x{y}z} has the alternative value x{y and the top-level text z}; a }
\* at top level is always literal text.
C26_BracesNotCounted ==
    ParseReturned =>
       /\ \A op \in NestedOps : \A k \in DOMAIN input :
             (FirstBraceAfter(op, k) /\ NoDollar(From(input, k)))
             => /\ ~parsed.err.failed
                /\ parsed.segments # <<>>
                /\ parsed.segments[1].type = "Substitution"
                /\ SubSeq(parsed.segments, 2, Len(parsed.segments)) =
                      AsPlainText(From(input, k))
                /\ NoDollar(AltText(op, k)) =>
                      parsed.segments[1] =
                         Substitution(NameA, op,
                                      AsPlainText(AltText(op, k)))
       /\ \A i \in DOMAIN input :
             (TopLevelBraceAt(i) /\ NoDollar(From(input, i)))
             => /\ ~parsed.err.failed
                /\ parsed.segments # <<>>
                /\ parsed.segments[Len(parsed.segments)].type = "PlainText"
                /\ \E t \in {parsed.segments[Len(parsed.segments)].text} :
                      /\ Len(t) >= Len(input) - i + 1
                      /\ From(t, Len(t) - (Len(input) - i + 1)) =
                            From(input, i - 1)
       /\ input = BracesInAlt
           => parsed.segments =
                 <<Substitution(NameA, <<"-">>,
                                <<PlainText(<<"x", "{", "y">>)>>),
                   PlainText(<<"z", "}">>)>>

\* the segment sequences of a parse result, at every nesting level
AllSequences(segs) ==
    {segs} \cup { subst.AltValue : subst \in AllSubstitutions(segs) }

\* no empty PlainText segment, and no PlainText segment next to another
TextMerged(segs) ==
    \A i \in DOMAIN segs :
       segs[i].type = "PlainText"
       => /\ segs[i].text # <<>>
          /\ i < Len(segs) => segs[i + 1].type # "PlainText"

NestedText ==
    <<"a", "$", "{", "A", ":", "-", "b", "$", "{", "B", "-", "$", "$", "c",
      "}", "d", "}", "e">>

\* C27: every segment sequence parse produces, at every nesting level, has
\* no empty PlainText segment and no two PlainText segments next to each
\* other; the empty input gives the empty sequence.
C27_TextSegmentsMerged ==
    /\ Parsed => \A segs \in AllSequences(parsed.segments) : TextMerged(segs)
    /\ (ParseReturned /\ input = <<>>)
        => parsed = [segments |-> <<>>, nilSegments |-> FALSE,
                     err |-> NilError]

\* a${A:-b${B-$$c}d}e: text on both sides of a reference at two levels, and
\* an escape inside the innermost text
C27_Witness ==
    /\ Parsed
    /\ input = NestedText
    /\ parsed.segments =
          <<PlainText(<<"a">>),
            Substitution(NameA, <<":", "-">>,
               <<PlainText(<<"b">>),
                 Substitution(NameB, <<"-">>, <<PlainText(<<"$", "c">>)>>),
                 PlainText(<<"d">>)>>),
            PlainText(<<"e">>)>>
    /\ Cardinality(AllSequences(parsed.segments)) = 3

Operations ==
    { <<>>, <<"?">>, <<":", "?">>, <<"-">>, <<":", "-">>, <<"+">>,
      <<":", "+">> }

NestedRefs ==
    <<"$", "{", "A", "+", "$", "{", "B", ":", "?", "$", "{", "A", "}", "}",
      "}">>

\* C28: every Substitution parse produces, at every nesting level, has one
\* of the operations "", ?, :?, -, :-, +, :+ and a name that is a
\* non-empty identifier; rendering the segments of a successful parse never
\* gives the error "internal error: unknown interpolation operation".
C28_KnownOperations ==
    /\ Parsed
        => \A subst \in AllSubstitutions(parsed.segments) :
              /\ subst.Operation \in Operations
              /\ IsIdentifier(subst.VariableName)
    /\ Rendered => ~IsPrefix(errInternal, rendered.err.msg)

\* ${A+${B:?${A}}} rendered: three references, one inside the other, with
\* two operators and a bare name
C28_Witness ==
    /\ Rendered
    /\ input = NestedRefs
    /\ { subst.Operation : subst \in AllSubstitutions(parsed.segments) } =
          { <<"+">>, <<":", "?">>, <<>> }
    /\ { subst.VariableName : subst \in AllSubstitutions(parsed.segments) } =
          { NameA, NameB }

\* C29: the alternative value is rendered only when the operator selects
\* it: when it does not, the reference renders without error, as the
\* variable's value for ?, :?, - and :- and as the empty string for + and
\* :+, also when rendering the alternative value would fail, as in
\* ${A-${B?1}} with A set and B unset and in ${A+${B?1}} with both unset.
C29_UnselectedAltNotRendered ==
    \A op \in NestedOps :
       (RenderedOne(op) /\ ~Selects(op))
       => rendered =
             [text |-> IF op \in {<<"+">>, <<":", "+">>}
                       THEN <<>>
                       ELSE vars[TheName],
              err |-> NilError]

\* ${A-${B?1}} rendered with A set and B unset: the alternative value would
\* fail, and the reference renders as the value of A
C29_Witness ==
    /\ RenderedOne(<<"-">>)
    /\ input = Opened(<<"-">>) \o RefBOrFail \o <<"}">>
    /\ IsSet
    /\ TheAlt.err.failed
    /\ rendered = [text |-> vars[NameA], err |-> NilError]

\* the variable mapping v without the name n
WithoutName(v, n) == [m \in DOMAIN v \ {n} |-> v[m]]

\* the names the segments refer to, at any nesting level
NamesIn(segs) == { subst.VariableName : subst \in AllSubstitutions(segs) }

EscapedRef == <<"$", "$", "{", "A", "}">>
AltRefersToA == <<"$", "{", "B", "-", "$", "A", "}">>
AltEscapesA == <<"$", "{", "B", ":", "-", "$", "$", "A", "}">>

\* C30: interpolation is single-pass: a variable's value, a rendered
\* alternative value and the $ of a $$ go into the output as they are and
\* are not scanned again.  A variable the string does not name has no
\* bearing on the rendering, whatever the values of the others hold; $A
\* renders as the value of A, be it $B or the malformed ${B; $${A} renders
\* as ${A}; ${B-$A} with B unset renders as the value of A and ${B:-$$A} as
\* $A.
C30_SinglePass ==
    /\ Rendered
        => \A n \in DOMAIN vars \ NamesIn(parsed.segments) :
              rendered = SegmentsText(parsed.segments, WithoutName(vars, n))
    /\ (RenderedOne(<<>>) /\ IsSet)
        => rendered = [text |-> vars[TheName], err |-> NilError]
    /\ (Rendered /\ input = EscapedRef)
        => rendered = [text |-> <<"$", "{", "A", "}">>, err |-> NilError]
    /\ (Rendered /\ input = AltRefersToA /\ DOMAIN vars = {NameA})
        => rendered = [text |-> vars[NameA], err |-> NilError]
    /\ (Rendered /\ input = AltEscapesA /\ NameB \notin DOMAIN vars)
        => rendered = [text |-> <<"$", "A">>, err |-> NilError]

\* $A rendered with A holding $B and B holding 1: the text is $B
C30_Witness ==
    /\ RenderedOne(<<>>)
    /\ input = <<"$", "A">>
    /\ vars = (NameA :> <<"$", "B">>) @@ (NameB :> <<"1">>)
    /\ rendered = [text |-> <<"$", "B">>, err |-> NilError]

(***************************************************************************)
(* Properties of the tree walker, checked under SpecTree.                  *)
(***************************************************************************)
Called == pc = "called"

\* m reads "error in '<path>': <message>" for some path and message
HasErrorForm(m) ==
    /\ Len(m) >= Len(errInPrefix) + Len(errInSep)
    /\ SubSeq(m, 1, Len(errInPrefix)) = errInPrefix
    /\ \E i \in (Len(errInPrefix) + 1)..(Len(m) - Len(errInSep) + 1) :
          SubSeq(m, i, i + Len(errInSep) - 1) = errInSep

\* the string leaves of d with their paths, d itself being at path
RECURSIVE LeafPaths(_, _)
LeafPaths(d, path) ==
    CASE d.kind = "string" -> {[path |-> path, str |-> d.str]}
      [] d.kind = "map" ->
            UNION { LeafPaths(d.entries[k], PathAppend(path, k)) :
                    k \in DOMAIN d.entries }
      [] d.kind = "seq" ->
            UNION { LeafPaths(d.elems[i], PathAppendIndex(path, i - 1)) :
                    i \in DOMAIN d.elems }
      [] OTHER -> {}

ParseFails(s) == parse(s).err.failed

RenderFails(s, v) ==
    /\ ~ParseFails(s)
    /\ SegmentsText(parse(s).segments, v).err.failed

DocBarSeq ==
    (KeyBar :> Sequence(<<String(<<>>), String(<<"$", "{", "A">>)>>))

MsgBar1 ==
    <<"e", "r", "r", "o", "r", " ", "i", "n", " ", "'", "b", "a", "r", "[",
      "1", "]", "'", ":", " ", "u", "n", "t", "e", "r", "m", "i", "n", "a",
      "t", "e", "d", " ", "$", "{" >>

MsgIdx1 ==
    <<"e", "r", "r", "o", "r", " ", "i", "n", " ", "'", "[", "1", "]", "'",
      ":", " ", "u", "n", "t", "e", "r", "m", "i", "n", "a", "t", "e", "d",
      " ", "$", "{" >>

\* C1 (as claimed): every error the tree walker returns reads
\* "error in '<path>': <message>", for parse and for render failures alike.
C1_EveryErrorNamesItsPath ==
    (Called /\ outcome.err.failed) => HasErrorForm(outcome.err.msg)

\* C2 (as claimed): an error of Variables for a string that fails to parse
\* names the path from the document root, the top-level key included.
C2_PathStartsWithTopLevelKey ==
    (Called /\ entry = "Variables" /\ outcome.err.failed
       /\ HasErrorForm(outcome.err.msg))
    => \E l \in LeafPaths(Mapping(data), <<>>) :
          /\ ParseFails(l.str)
          /\ outcome.err = Errorf(l.path, parse(l.str).err)

\* the string leaves a call walks, each with the path the walker is to
\* report it under: Variables starts below the top-level key
WalkedLeaves ==
    IF entry = "Variables"
    THEN UNION { LeafPaths(data[k], <<>>) : k \in DOMAIN data }
    ELSE LeafPaths(Mapping(data), startPath)

\* C2 (amended): the path of a string that fails to parse names every key
\* and index from the value the walk started at: for Variables that is the
\* top-level value, so the top-level key is not part of the path, and for
\* interpolateMapping it is the mapping itself.  {"bar": ["", "${A"]} gives
\* "error in '[1]': unterminated ${" from Variables and "error in 'bar[1]':
\* unterminated ${" from interpolateMapping at the empty path.  An error
\* that names no path is the render error of one of the strings.
C2_PathBelowTopLevelKey ==
    /\ (Called /\ outcome.err.failed)
        => \E l \in WalkedLeaves :
              \/ /\ ParseFails(l.str)
                 /\ outcome.err = Errorf(l.path, parse(l.str).err)
              \/ /\ RenderFails(l.str, vars)
                 /\ outcome.err = SegmentsText(parse(l.str).segments, vars).err
    /\ (Called /\ data = DocBarSeq)
        => outcome.err.failed
           /\ outcome.err.msg =
                 IF entry = "Variables" THEN MsgIdx1
                 ELSE IF startPath = <<>> THEN MsgBar1
                 ELSE errInPrefix \o startPath \o <<".">> \o KeyBar
                      \o <<"[", "1", "]">> \o errInSep \o errUnterminated

C2_Witness ==
    Called /\ entry = "Variables" /\ data = DocBarSeq
    /\ outcome.err.msg = MsgIdx1

\* a successful walk of d returned r: the same keys, the same length and
\* order, every string replaced by its interpolation, the rest unchanged
RECURSIVE SameShape(_, _, _)
SameShape(d, r, v) ==
    CASE d.kind = "string" ->
            /\ r.kind = "string"
            /\ r.str = SegmentsText(parse(d.str).segments, v).text
      [] d.kind = "map" ->
            /\ r.kind = "map"
            /\ DOMAIN r.entries = DOMAIN d.entries
            /\ \A k \in DOMAIN d.entries :
                  SameShape(d.entries[k], r.entries[k], v)
      [] d.kind = "seq" ->
            /\ r.kind = "seq"
            /\ Len(r.elems) = Len(d.elems)
            /\ \A i \in DOMAIN d.elems :
                  SameShape(d.elems[i], r.elems[i], v)
      [] OTHER -> r = d

\* C10: on success the tree walker returns a tree of the shape of its
\* input: the same key sets, the same lengths and order, every string
\* replaced by its own interpolation, every other value unchanged.
C10_SameShape ==
    (Called /\ ~outcome.err.failed)
    => SameShape(Mapping(data), outcome.value, vars)

\* a walked sequence of two different strings beside a value that is no
\* string, with A set
C10_Witness ==
    /\ Called /\ ~outcome.err.failed
    /\ NameA \in DOMAIN vars /\ vars[NameA] # <<>>
    /\ \E k \in DOMAIN data :
          /\ data[k] = Sequence(<<String(<<"$", "A">>), String(<<>>),
                                  Int(42)>>)
          /\ outcome.value.entries[k] =
                Sequence(<<String(vars[NameA]), String(<<>>), Int(42)>>)

\* a call on stored values has returned
CalledStored == Called /\ mem.before # <<>>

\* the addresses of the objects reachable from a slot
RECURSIVE Reachable(_, _)
Reachable(h, slot) ==
    IF slot.kind # "ref"
    THEN {}
    ELSE {slot.addr} \cup
         (IF h[slot.addr].obj = "map"
          THEN UNION { Reachable(h, h[slot.addr].slots[k]) :
                       k \in DOMAIN h[slot.addr].slots }
          ELSE IF h[slot.addr].obj = "seq"
          THEN UNION { Reachable(h, h[slot.addr].items[i]) :
                       i \in DOMAIN h[slot.addr].items }
          ELSE {})

\* C11: after a call of Variables, successful or failing, every object
\* that was in memory before the call (the document's mappings and
\* sequences at every level, and the variable mapping) holds what it held
\* before; a successful call returns a mapping whose mappings and sequences
\* are all objects made during the call, and a failing call returns nil.
C11_InputsUnmodified ==
    CalledStored
    => /\ Len(mem.after) >= Len(mem.before)
       /\ \A a \in DOMAIN mem.before : mem.after[a] = mem.before[a]
       /\ Load(mem.after, Ref(mem.data)) = Mapping(data)
       /\ mem.after[mem.vars] = VarsObject(vars)
       /\ IF mem.err.failed
          THEN mem.result = NilRef
          ELSE /\ mem.result.kind = "ref"
               /\ Reachable(mem.after, mem.result) \cap DOMAIN mem.before = {}
               /\ Cardinality(Reachable(mem.after, mem.result)) =
                     Cardinality(Reachable(mem.before, Ref(mem.data)))

\* a successful call on a document with a sequence inside a mapping
C11_Witness ==
    /\ CalledStored
    /\ ~mem.err.failed
    /\ \E k \in DOMAIN data :
          /\ data[k].kind = "seq"
          /\ Len(data[k].elems) >= 2
          /\ data[k].elems[1] # outcome.value.entries[k].elems[1]
    /\ Len(mem.after) > Len(mem.before)

\* the walked strings that fail, and the error interpolateString returns
\* for one of them
FailingLeaves ==
    { l \in WalkedLeaves : ParseFails(l.str) \/ RenderFails(l.str, vars) }

LeafError(l) ==
    IF ParseFails(l.str)
    THEN Errorf(l.path, parse(l.str).err)
    ELSE SegmentsText(parse(l.str).segments, vars).err

\* the mappings and sequences of d with their paths, d itself being at path
RECURSIVE Containers(_, _)
Containers(d, path) ==
    CASE d.kind = "map" ->
            {[path |-> path, value |-> d]} \cup
            UNION { Containers(d.entries[k], PathAppend(path, k)) :
                    k \in DOMAIN d.entries }
      [] d.kind = "seq" ->
            {[path |-> path, value |-> d]} \cup
            UNION { Containers(d.elems[i], PathAppendIndex(path, i - 1)) :
                    i \in DOMAIN d.elems }
      [] OTHER -> {}

\* C12: a call fails exactly when one of the strings it walks fails to
\* parse or to render; a failing call returns nil and the error of one
\* single failing string, and so does the walk of every mapping and of
\* every sequence inside the document: nil, never the part built so far.
C12_FailFast ==
    Called
    => /\ outcome.err.failed <=> FailingLeaves # {}
       /\ outcome.err.failed
           => /\ outcome.value = NilMapping
              /\ \E l \in FailingLeaves : outcome.err = LeafError(l)
       /\ \A c \in Containers(Mapping(data), startPath) :
          \A o \in recursively(c.value, c.path, vars) :
             o.err.failed
             => /\ o.value = IF c.value.kind = "map" THEN NilMapping
                             ELSE NilSequence
                /\ \E l \in LeafPaths(c.value, c.path) :
                      o.err \in { Errorf(l.path, parse(l.str).err),
                                  SegmentsText(parse(l.str).segments,
                                               vars).err }

\* a failing call on a document that holds a string that interpolates
\* beside one that fails to parse and one that fails to render
C12_Witness ==
    /\ Called
    /\ outcome.err.failed
    /\ outcome.value = NilMapping
    /\ \E l1, l2 \in FailingLeaves :
          ParseFails(l1.str) /\ RenderFails(l2.str, vars)
    /\ WalkedLeaves \ FailingLeaves # {}

CalledAgain == pc = "called again"

\* some string of d fails
HasFailingLeaf(d) ==
    \E l \in LeafPaths(d, <<>>) :
       ParseFails(l.str) \/ RenderFails(l.str, vars)

\* no mapping of the document holds failing strings under two of its keys
NoFailingSiblings ==
    \A c \in Containers(Mapping(data), <<>>) :
       c.value.kind = "map"
       => Cardinality({ k \in DOMAIN c.value.entries :
                          HasFailingLeaf(c.value.entries[k]) }) <= 1

\* C13 (as claimed): two calls with the same document and the same
\* variable mapping return the same outcome, the same tree or the same
\* error, whatever the document holds.
C13_SameOutcome ==
    CalledAgain => second = outcome

\* C13 (amended): two calls with the same document and the same variable
\* mapping both succeed with the same tree or both fail; they fail with the
\* same error when no mapping of the document holds failing strings under
\* two of its keys, and otherwise each with the error of one of the
\* failing strings.
C13_SameOutcomeUpToKeyOrder ==
    CalledAgain
    => /\ second.err.failed <=> outcome.err.failed
       /\ second.value = outcome.value
       /\ NoFailingSiblings => second = outcome
       /\ second.err.failed
           => \E l \in FailingLeaves : second.err = LeafError(l)

\* two failing calls on a document whose failing strings all sit in one
\* sequence: both report the string at the lowest index
C13_Witness ==
    /\ CalledAgain
    /\ outcome.err.failed
    /\ NoFailingSiblings
    /\ Cardinality(FailingLeaves) >= 2
    /\ second = outcome

\* one step from a value to a value inside it: by key or by index
KeyStep(k) == [step |-> "key", name |-> k, num |-> 0]
IndexStep(i) == [step |-> "index", name |-> <<>>, num |-> i]

\* the string leaves of d, each with the steps that lead to it from d, d
\* itself being reached by trail
RECURSIVE Trails(_, _)
Trails(d, trail) ==
    CASE d.kind = "string" -> {[trail |-> trail, str |-> d.str]}
      [] d.kind = "map" ->
            UNION { Trails(d.entries[k], Append(trail, KeyStep(k))) :
                    k \in DOMAIN d.entries }
      [] d.kind = "seq" ->
            UNION { Trails(d.elems[i], Append(trail, IndexStep(i - 1))) :
                    i \in DOMAIN d.elems }
      [] OTHER -> {}

\* the decimal numeral of an index below ten
Numeral(i) == <<DigitChars[i + 1]>>

\* the text of the path got from the path that reads start by the first n
\* steps of trail: a key adds .name, without the dot when the path it is
\* added to is the root; an index adds [i]
RECURSIVE PathText(_, _, _)
PathText(start, trail, n) ==
    IF n = 0
    THEN start
    ELSE IF trail[n].step = "key"
    THEN IF PathText(start, trail, n - 1) = <<>>
         THEN trail[n].name
         ELSE PathText(start, trail, n - 1) \o <<".">> \o trail[n].name
    ELSE PathText(start, trail, n - 1)
         \o <<"[">> \o Numeral(trail[n].num) \o <<"]">>

\* the string leaves a call walks, each with the steps from the value the
\* walk started at
WalkedTrails ==
    IF entry = "Variables"
    THEN UNION { Trails(data[k], <<>>) : k \in DOMAIN data }
    ELSE Trails(Mapping(data), <<>>)

MsgMBar1 ==
    <<"e", "r", "r", "o", "r", " ", "i", "n", " ", "'", "m", ".", "b", "a",
      "r", "[", "1", "]", "'", ":", " ", "u", "n", "t", "e", "r", "m", "i",
      "n", "a", "t", "e", "d", " ", "$", "{" >>

\* C23: the root path reads as the empty string; a key adds ".name" to a
\* path, without the dot exactly when the path is the root; an index adds
\* "[i]"; the path an error names for a string is made of the steps from
\* the start of the walk to that string and of nothing else, whatever was
\* visited before it: ["", "${A"] under bar gives bar[1] from the root and
\* m.bar[1] from the path m.
C23_PathOfOwnAncestors ==
    /\ (Called /\ outcome.err.failed /\ HasErrorForm(outcome.err.msg))
        => \E l \in WalkedTrails :
              /\ ParseFails(l.str)
              /\ outcome.err.msg =
                    errInPrefix
                    \o PathText(startPath, l.trail, Len(l.trail))
                    \o errInSep \o parse(l.str).err.msg
    /\ (Called /\ entry = "interpolateMapping" /\ data = DocBarSeq)
        => outcome.err.msg = IF startPath = <<>> THEN MsgBar1 ELSE MsgMBar1

\* interpolateMapping at the path m on {"bar": ["", "${A"]}
C23_Witness ==
    /\ Called
    /\ entry = "interpolateMapping"
    /\ startPath = <<"m">>
    /\ data = DocBarSeq
    /\ outcome.err.msg = MsgMBar1

\* {"foo": {"bar": ["${A"]}}
DocFooBarSeq ==
    (KeyFoo :> Mapping((KeyBar :> Sequence(<<String(<<"$", "{", "A">>)>>))))

\* {"foo": "${A"}
DocFooString == (KeyFoo :> String(<<"$", "{", "A">>))

MsgBar0 ==
    <<"e", "r", "r", "o", "r", " ", "i", "n", " ", "'", "b", "a", "r", "[",
      "0", "]", "'", ":", " ", "u", "n", "t", "e", "r", "m", "i", "n", "a",
      "t", "e", "d", " ", "$", "{" >>

MsgEmptyPath ==
    <<"e", "r", "r", "o", "r", " ", "i", "n", " ", "'", "'", ":", " ", "u",
      "n", "t", "e", "r", "m", "i", "n", "a", "t", "e", "d", " ", "$", "{" >>

CalledVariables == Called /\ entry = "Variables"

\* C24: Variables starts every top-level value at the empty path: an error
\* of Variables is the error of walking one of the top-level values from
\* the empty path, so the top-level key is no part of the path it names;
\* the string at foo -> bar -> [0] that fails to parse is reported in
\* 'bar[0]' and one that is itself a top-level value in ''.
C24_TopLevelKeyNotInPath ==
    /\ (CalledVariables /\ outcome.err.failed)
        => \E k \in DOMAIN data :
           \E o \in recursively(data[k], <<>>, vars) : o.err = outcome.err
    /\ (CalledVariables /\ data = DocFooBarSeq) => outcome.err.msg = MsgBar0
    /\ (CalledVariables /\ data = DocFooString)
        => outcome.err.msg = MsgEmptyPath

\* Variables on {"foo": {"bar": ["${A"]}}
C24_Witness ==
    /\ CalledVariables
    /\ data = DocFooBarSeq
    /\ outcome = [value |-> NilMapping, err |-> NewError(MsgBar0)]

\* the sequences inside the document, each with its path
SequencesInside ==
    { c \in Containers(Mapping(data), startPath) : c.value.kind = "seq" }

\* the path of the element of index j of the sequence c
ElementPath(c, j) == c.path \o <<"[">> \o Numeral(j) \o <<"]">>

\* the indices of the elements of the sequence c that fail: a string that
\* fails to parse or to render, or a container that holds one
FailingElements(c) ==
    { j \in 0..(Len(c.value.elems) - 1) :
        \E l \in LeafPaths(c.value.elems[j + 1], ElementPath(c, j)) :
           ParseFails(l.str) \/ RenderFails(l.str, vars) }

LowestFailing(c) ==
    CHOOSE j \in FailingElements(c) : \A k \in FailingElements(c) : j <= k

\* the calls of interpolateString listed in calls leave out every element
\* of the sequence c after its first failing one
StopsAtLowestFailing(c, calls) ==
    \A n \in DOMAIN calls :
    \A j \in 0..(Len(c.value.elems) - 1) :
       IsPrefix(ElementPath(c, j), calls[n].path) => j <= LowestFailing(c)

\* {"bar": ["", "${A", "${B?1}"]}
DocBarSeq3 ==
    (KeyBar :> Sequence(<<String(<<>>), String(<<"$", "{", "A">>),
                          String(RefBOrFail)>>))

\* C25: of a sequence with failing elements the walker returns the error of
\* the failing element of lowest index, an error from inside that element
\* included, and makes no call of interpolateString for an element of
\* higher index: for every sequence walked on its own, and for every
\* sequence inside a document handed to interpolateMapping.
C25_LowestIndexFails ==
    Called =>
       \A c \in SequencesInside :
          FailingElements(c) # {} =>
             /\ \A o \in recursively(c.value, c.path, vars) :
                   /\ o.err.failed
                   /\ \E e \in recursively(
                                  c.value.elems[LowestFailing(c) + 1],
                                  ElementPath(c, LowestFailing(c)), vars) :
                         e.err = o.err
                   /\ StopsAtLowestFailing(c, o.calls)
             /\ entry = "interpolateMapping" /\ visited # <<>> =>
                   /\ StopsAtLowestFailing(c, visited)
                   /\ IsPrefix(c.path \o <<"[">>, visited[Len(visited)].path)
                       => /\ IsPrefix(ElementPath(c, LowestFailing(c)),
                                      visited[Len(visited)].path)
                          /\ outcome.err = LeafError(visited[Len(visited)])

\* interpolateMapping on {"bar": ["", "${A", "${B?1}"]} without variables:
\* the elements 1 and 2 fail, the error is that of element 1, and element 2
\* is not interpolated
C25_Witness ==
    /\ Called
    /\ entry = "interpolateMapping"
    /\ startPath = <<>>
    /\ vars = NoVars
    /\ data = DocBarSeq3
    /\ \E c \in SequencesInside : FailingElements(c) = {1, 2}
    /\ visited = <<[path |-> <<"b", "a", "r", "[", "0", "]">>, str |-> <<>>],
                   [path |-> <<"b", "a", "r", "[", "1", "]">>,
                    str |-> <<"$", "{", "A">>]>>
    /\ outcome.err.msg = MsgBar1

(***************************************************************************)
(* Properties of the parser taken step by step, checked under SpecScan.    *)
(***************************************************************************)
Scanning == pc = "scanning"

\* the innermost call of parseRecursive and the position in input its loop
\* index stands at
Top == stack[Len(stack)]
Cursor == Top.base + Top.idx

\* while a parse is under way every loop index is within its string, every
\* string of a nested call is a suffix of input, and the nesting of calls
\* is at most the number of ${ in input; every byte read and every slice
\* taken is within the string; a parse that has ended has returned what
\* parse returns, segments or nil with an error, and a rendering has
\* returned text or an error
ScanWithinBounds ==
    /\ Scanning
        => /\ stack # <<>>
           /\ \A i \in DOMAIN stack :
                 /\ stack[i].idx <= Len(stack[i].s)
                 /\ stack[i].base + Len(stack[i].s) = Len(input)
                 /\ stack[i].braced <=> i > 1
           /\ Cursor <= Len(input)
           /\ Len(stack) - 1 <= Openers(input)
    /\ \A i \in reads.bytes : i < reads.len
    /\ \A i \in reads.slices : i <= reads.len
    /\ ParseReturned
        => /\ stack = <<>>
           /\ parsed = parse(input)
           /\ parsed.err.failed <=> parsed.nilSegments
           /\ parsed.nilSegments => parsed.segments = <<>>
    /\ Rendered => (rendered.err.failed => rendered.text = <<>>)

\* every step of a parse under way moves the cursor forward
ScanAdvances == (Scanning /\ Scanning') => Cursor' > Cursor

\* C14: parse ends on every input with segments or with an error: every
\* step of parseRecursive, with the parseVariable and parseBraced calls it
\* makes, moves the cursor strictly forward, no step reads or slices the
\* string past its end, the cursor never passes the end of the input, and
\* the depth of the parseRecursive calls is at most the number of ${ in
\* the input; rendering the segments ends with text or with one error.
C14_ParseTerminates ==
    []ScanWithinBounds /\ [][ScanAdvances]_allvars

\* two nested alternative values under way, the cursor at the end of input
C14_Witness ==
    /\ Scanning
    /\ Len(stack) = 3
    /\ Cursor = Len(input)
    /\ reads.slices # {}

====
